---- MODULE Spec2Model ----
(***************************************************************************)
(* Model of the git changelog tools: the release script                    *)
(* git_tag_changelog.sh (version determination, changelog append, manifest *)
(* update, commit, tag, push) and the changelog generator git_changelog.sh.*)
(*                                                                         *)
(* Text is modelled as a sequence of one-character strings, a file as a    *)
(* sequence of lines.                                                      *)
(***************************************************************************)
EXTENDS Integers, Sequences, FiniteSets, TLC

(***************************************************************************)
(* Bounds                                                                  *)
(***************************************************************************)
\* number of release runs started on a repository drawn by RelInit
MaxRuns == 1
\* number of release runs made one after the other on a fresh repository
MaxReleases == 2
\* largest version component of a tag drawn for determine_version
MaxPart == 10
\* number of lines of a package.json drawn for update_package_json
MaxManifestLines == 2
\* number of commits of a repository drawn for the changelog generator
MaxCommits == 2
\* the length of the text X of a drawn subject "feat: X"
MaxText == 5
\* the length of a drawn text with characters JSON escapes
MaxSpecial == 2
\* the number of words of a drawn message with @bug mentions
MaxMentions == 3
\* the number of pieces the standard output of a drawn child comes in
MaxChunks == 2
\* release runs that execute append_to_changelog on one file at a time
MaxAppends == 2

(***************************************************************************)
(* Text helpers                                                            *)
(***************************************************************************)
Digits == <<"0", "1", "2", "3", "4", "5", "6", "7", "8", "9">>

IsDigit(c) == \E i \in 1..10 : Digits[i] = c

DigitVal(c) == (CHOOSE i \in 1..10 : Digits[i] = c) - 1

IsLetter(c) == c \in {"v", "x", "r"}

AllDigits(s) == \A i \in 1..Len(s) : IsDigit(s[i])

RECURSIVE ToNat(_)
\* value of a string of decimal digits
ToNat(s) ==
  IF s = <<>> THEN 0
  ELSE ToNat(SubSeq(s, 1, Len(s) - 1)) * 10 + DigitVal(s[Len(s)])

RECURSIVE OctNat(_)
\* value of a string of octal digits
OctNat(s) ==
  IF s = <<>> THEN 0
  ELSE OctNat(SubSeq(s, 1, Len(s) - 1)) * 8 + DigitVal(s[Len(s)])

RECURSIVE ToStr(_)
\* decimal numeral of a natural number, as the shell prints it
ToStr(n) ==
  IF n < 10 THEN <<Digits[n + 1]>>
  ELSE ToStr(n \div 10) \o <<Digits[(n % 10) + 1]>>

RECURSIVE SplitAll(_, _)
\* the fields of s between occurrences of the character d (empty fields kept)
SplitAll(s, d) ==
  IF \A i \in 1..Len(s) : s[i] # d THEN <<s>>
  ELSE LET k == CHOOSE i \in 1..Len(s) :
                  s[i] = d /\ \A j \in 1..(i - 1) : s[j] # d
       IN <<SubSeq(s, 1, k - 1)>> \o SplitAll(SubSeq(s, k + 1, Len(s)), d)

IsPrefixOf(p, s) == Len(p) <= Len(s) /\ SubSeq(s, 1, Len(p)) = p

(***************************************************************************)
(* git_tag_changelog.sh: version functions                                 *)
(***************************************************************************)
\* TAG_PREFIX="v"
TAG_PREFIX == <<"v">>

\* IFS='.' read -ra PARTS <<< "$version": fields between dots; read drops
\* one trailing empty field, and the empty string has no field at all
ReadParts(version) ==
  LET all == SplitAll(version, ".")
  IN IF all[Len(all)] = <<>> THEN SubSeq(all, 1, Len(all) - 1) ELSE all

\* ${PARTS[i]:-0}
PartOrZero(parts, i) ==
  IF i <= Len(parts) /\ parts[i] # <<>> THEN parts[i] ELSE <<"0">>

\* $((x + 1)) for the text x of a shell variable: a decimal numeral, an octal
\* numeral when it has a leading zero (an error when it then holds 8 or 9),
\* the name of an unset variable (0), anything else a syntax error
ArithPlusOne(x) ==
  IF AllDigits(x) THEN
    IF Len(x) > 1 /\ x[1] = "0" THEN
      IF \E i \in 1..Len(x) : x[i] \in {"8", "9"}
      THEN [ok |-> FALSE, val |-> <<>>]
      ELSE [ok |-> TRUE, val |-> ToStr(OctNat(x) + 1)]
    ELSE [ok |-> TRUE, val |-> ToStr(ToNat(x) + 1)]
  ELSE IF IsLetter(x[1]) /\ \A i \in 1..Len(x) : IsLetter(x[i]) \/ IsDigit(x[i])
    THEN [ok |-> TRUE, val |-> <<"1">>]
  ELSE [ok |-> FALSE, val |-> <<>>]

\* validate_version: version =~ ^[0-9]+\.[0-9]+\.[0-9]+$
validate_version(version) ==
  LET all == SplitAll(version, ".")
  IN Len(all) = 3 /\ \A i \in 1..3 : all[i] # <<>> /\ AllDigits(all[i])

\* parse_version_from_tag: sed "s/^$TAG_PREFIX//"
parse_version_from_tag(tag, prefix) ==
  IF IsPrefixOf(prefix, tag) THEN SubSeq(tag, Len(prefix) + 1, Len(tag)) ELSE tag

increment_version_KeepsPatch(version, increment_type) ==
  LET parts == ReadParts(version)
      major == PartOrZero(parts, 1)
      minor == PartOrZero(parts, 2)
      patch == PartOrZero(parts, 3)
      out(a, b, c) == [out |-> a \o <<".">> \o b \o <<".">> \o c, status |-> 0]
      failed == [out |-> <<>>, status |-> 1]
  IN CASE increment_type = "major" ->
            LET r == ArithPlusOne(major)
            IN IF r.ok THEN out(r.val, <<"0">>, <<"0">>) ELSE failed
       [] increment_type = "minor" ->
            LET r == ArithPlusOne(minor)
            IN IF r.ok THEN out(major, r.val, patch) ELSE failed
       [] increment_type = "patch" ->
            LET r == ArithPlusOne(patch)
            IN IF r.ok THEN out(major, minor, r.val) ELSE failed
       [] OTHER -> failed

\* increment_version: what the function prints and its exit status
increment_version(version, increment_type) ==
  LET parts == ReadParts(version)
      major == PartOrZero(parts, 1)
      minor == PartOrZero(parts, 2)
      patch == PartOrZero(parts, 3)
      out(a, b, c) == [out |-> a \o <<".">> \o b \o <<".">> \o c, status |-> 0]
      failed == [out |-> <<>>, status |-> 1]
  IN CASE increment_type = "major" ->
            LET r == ArithPlusOne(major)
            IN IF r.ok THEN out(r.val, <<"0">>, <<"0">>) ELSE failed
       [] increment_type = "minor" ->
            LET r == ArithPlusOne(minor)
            IN IF r.ok THEN out(major, r.val, <<"0">>) ELSE failed
       [] increment_type = "patch" ->
            LET r == ArithPlusOne(patch)
            IN IF r.ok THEN out(major, minor, r.val) ELSE failed
       [] OTHER -> failed

\* determine_version, given what get_latest_tag printed: the text the
\* function prints, its exit status, and whether it logged an error.
\* "local new_version=$(increment_version ...)" takes the status of local,
\* so a failed increment_version leaves new_version empty and goes on.
determine_version(VERSION, AUTO_INCREMENT, latest_tag, prefix) ==
  IF VERSION # <<>> THEN
    IF validate_version(VERSION)
    THEN [out |-> VERSION, status |-> 0, err |-> FALSE]
    ELSE [out |-> <<>>, status |-> 1, err |-> TRUE]
  ELSE IF AUTO_INCREMENT # "" THEN
    LET base == IF latest_tag = <<>> THEN <<"0", ".", "0", ".", "0">>
                ELSE parse_version_from_tag(latest_tag, prefix)
        r == increment_version(base, AUTO_INCREMENT)
    IN [out |-> r.out, status |-> 0, err |-> r.status # 0]
  ELSE [out |-> <<>>, status |-> 1, err |-> TRUE]

(***************************************************************************)
(* git_tag_changelog.sh: the changelog file                                *)
(*                                                                         *)
(* A line is <<kind, text>>: "txt" a line of text, "gen" a line that       *)
(* starts with "Generated on", "release" the header "## [text] - date" of  *)
(* a release section, whose text is the version.                           *)
(***************************************************************************)
Txt(s) == <<"txt", s>>

Blank == Txt("")

ReleaseHeader(v) == <<"release", v>>

\* the header append_to_changelog writes to a changelog file it creates
HeaderLines ==
  << Txt("# Changelog"),
     Blank,
     Txt("All notable changes to this project will be documented in this file."),
     Blank >>

AbsentFile == [exists |-> FALSE, lines |-> <<>>]

File(ls) == [exists |-> TRUE, lines |-> ls]

\* head -n n
HeadN(ls, n) == SubSeq(ls, 1, IF Len(ls) < n THEN Len(ls) ELSE n)

\* tail -n +n
TailFrom(ls, n) == SubSeq(ls, n, Len(ls))

RECURSIVE StripTrailingBlank(_)
\* $(cat file): command substitution drops the newlines at the end
StripTrailingBlank(ls) ==
  IF ls # <<>> /\ ls[Len(ls)] = Blank
  THEN StripTrailingBlank(SubSeq(ls, 1, Len(ls) - 1))
  ELSE ls

\* sed '1,/^Generated on/d': delete from line 1 through the first later line
\* that starts with "Generated on" (the end address is tried from line 2 on);
\* with no such line everything is deleted
SedDropThroughGenerated(ls) ==
  IF \E i \in 2..Len(ls) : ls[i][1] = "gen"
  THEN LET k == CHOOSE i \in 2..Len(ls) :
                  ls[i][1] = "gen" /\ \A j \in 2..(i - 1) : ls[j][1] # "gen"
       IN SubSeq(ls, k + 1, Len(ls))
  ELSE <<>>

\* the release section that append_to_changelog puts between the header and
\* the earlier sections; CURRENT_VERSION empty gives "unknown"
ReleaseSection(new_content, CURRENT_VERSION) ==
  << Blank,
     ReleaseHeader(IF CURRENT_VERSION = <<>>
                   THEN <<"u", "n", "k", "n", "o", "w", "n">>
                   ELSE CURRENT_VERSION),
     Blank >>
  \o SedDropThroughGenerated(new_content) \o <<Blank>>

append_to_changelog_Below(new_release, changelog_file, CURRENT_VERSION) ==
  LET existing == IF changelog_file.exists THEN changelog_file.lines
                  ELSE HeaderLines
      new_content == StripTrailingBlank(new_release)
  IN IF new_content # <<>>
     THEN File(existing \o ReleaseSection(new_content, CURRENT_VERSION))
     ELSE File(existing)

\* append_to_changelog: the changelog file after the call
append_to_changelog(new_release, changelog_file, CURRENT_VERSION) ==
  LET existing == IF changelog_file.exists THEN changelog_file.lines
                  ELSE HeaderLines
      new_content == StripTrailingBlank(new_release)
  IN IF new_content # <<>>
     THEN File(HeadN(existing, 4)
               \o ReleaseSection(new_content, CURRENT_VERSION)
               \o TailFrom(existing, 5))
     ELSE File(existing)

(***************************************************************************)
(* git_tag_changelog.sh: package.json                                      *)
(*                                                                         *)
(* The manifest is a sequence of text lines; a line holds the fields       *)
(* written on it. A field has the path of keys from the top of the         *)
(* document, its string value, and whether it is written with one space    *)
(* after the colon ("key": "value") or not ("key":"value").                *)
(***************************************************************************)
Field(path, val, spaced) == [path |-> path, val |-> val, spaced |-> spaced]

RECURSIVE Flatten(_)
Flatten(ss) == IF ss = <<>> THEN <<>> ELSE ss[1] \o Flatten(Tail(ss))

\* the document a manifest text denotes: its fields and values, in order
ManifestFields(m) ==
  LET fs == Flatten(m)
  IN [i \in 1..Len(fs) |-> [path |-> fs[i].path, val |-> fs[i].val]]

\* sed "s/\"version\": \"[^\"]*\"/\"version\": \"$version\"/": on every line,
\* the first text "version": "..." gets the new value, whatever object the
\* key belongs to
SedVersionLine(line, version) ==
  LET hit(i) == line[i].path[Len(line[i].path)] = "version" /\ line[i].spaced
  IN IF \E i \in 1..Len(line) : hit(i)
     THEN LET k == CHOOSE i \in 1..Len(line) :
                     hit(i) /\ \A j \in 1..(i - 1) : ~hit(j)
          IN [line EXCEPT ![k].val = version]
     ELSE line

SedVersion(m, version) == [i \in 1..Len(m) |-> SedVersionLine(m[i], version)]

\* jq --arg version "$version" '.version = $version': the top-level version
\* is set (added as the last key when the document has none) and the
\* document is printed again, one field per line
JqSetVersion(m, version) ==
  LET fs == Flatten(m)
      top(i) == fs[i].path = <<"version">>
      set == [i \in 1..Len(fs) |->
                <<Field(fs[i].path, IF top(i) THEN version ELSE fs[i].val, TRUE)>>]
  IN IF \E i \in 1..Len(fs) : top(i) THEN set
     ELSE set \o << <<Field(<<"version">>, version, TRUE)>> >>

\* update_package_json: package.json after the call
update_package_json(package_file, version, jq, DRY_RUN) ==
  IF package_file.exists /\ ~DRY_RUN
  THEN IF jq THEN File(JqSetVersion(package_file.lines, version))
       ELSE File(SedVersion(package_file.lines, version))
  ELSE package_file

(***************************************************************************)
(* git_tag_changelog.sh: the repository                                    *)
(*                                                                         *)
(* The history is the sequence of commits of the current branch; a commit  *)
(* records the changelog file and package.json it holds and, for a release *)
(* commit, the version of its message. A tag is [name, commit], commit the *)
(* position in the history of the commit it names.                         *)
(***************************************************************************)
Commit(changelog_file, package_file, v) ==
  [changelog |-> changelog_file, pkg |-> package_file, msg |-> v]

Tag(name, c) == [name |-> name, commit |-> c]

tag_exists_Never(tagset, name) == FALSE

\* tag_exists: git rev-parse --verify "refs/tags/$tag"
tag_exists(tagset, name) == \E t \in tagset : t.name = name

\* get_latest_tag: git describe --tags --abbrev=0 2>/dev/null || echo "":
\* the names git may print, the tags of the commit nearest to HEAD that has
\* any; the empty text when the repository has no tag
get_latest_tag(tagset) ==
  IF tagset = {} THEN {<<>>}
  ELSE {t.name : t \in {u \in tagset : \A w \in tagset : w.commit <= u.commit}}

check_working_tree_IgnoresDirty(FORCE, dirty) == TRUE

\* check_working_tree: TRUE when the check lets the run go on
check_working_tree(FORCE, dirty) == ~(~FORCE /\ dirty)

create_tag_IgnoresDryRun(tagset, tag_name, head, FORCE, DRY_RUN) ==
  IF tag_exists(tagset, tag_name) /\ ~FORCE
  THEN [status |-> 1, tags |-> tagset]
  ELSE [status |-> 0,
        tags |-> {t \in tagset : t.name # tag_name} \cup {Tag(tag_name, head)}]

\* create_tag: exit status and the tags after the call; git tag -f moves an
\* existing tag to HEAD
create_tag(tagset, tag_name, head, FORCE, DRY_RUN) ==
  IF tag_exists(tagset, tag_name) /\ ~FORCE
  THEN [status |-> 1, tags |-> tagset]
  ELSE IF ~DRY_RUN
  THEN [status |-> 0,
        tags |-> {t \in tagset : t.name # tag_name} \cup {Tag(tag_name, head)}]
  ELSE [status |-> 0, tags |-> tagset]

\* a variant of push_tag that does not look for the remote origin
push_tag_NoOriginCheck(remote, tagset, tag_name, origin, DRY_RUN) ==
  IF DRY_RUN THEN [status |-> 0, remote |-> remote]
  ELSE LET mine == {t \in tagset : t.name = tag_name}
       IN IF mine = {} \/ \E t \in remote : t.name = tag_name /\ t \notin mine
          THEN [status |-> 1, remote |-> remote]
          ELSE [status |-> 0, remote |-> remote \cup mine]

\* push_tag: exit status and the tags of origin after the call; git push
\* refuses to move a tag that origin already has at another commit
push_tag(remote, tagset, tag_name, origin, DRY_RUN) ==
  IF DRY_RUN THEN [status |-> 0, remote |-> remote]
  ELSE IF ~origin THEN [status |-> 1, remote |-> remote]
  ELSE LET mine == {t \in tagset : t.name = tag_name}
       IN IF mine = {} \/ \E t \in remote : t.name = tag_name /\ t \notin mine
          THEN [status |-> 1, remote |-> remote]
          ELSE [status |-> 0, remote |-> remote \cup mine]

\* commit_changes: exit status and the history after the call; git add of
\* the changelog file and of package.json, a commit when anything is staged
commit_changes(hist, changelog_file, package_file, version, DRY_RUN) ==
  LET head == hist[Len(hist)]
  IN IF DRY_RUN THEN [status |-> 0, history |-> hist]
     ELSE IF ~changelog_file.exists THEN [status |-> 1, history |-> hist]
     ELSE IF head.changelog = changelog_file /\ head.pkg = package_file
     THEN [status |-> 0, history |-> hist]
     ELSE [status |-> 0,
           history |-> Append(hist, Commit(changelog_file, package_file, version))]

(***************************************************************************)
(* State                                                                   *)
(***************************************************************************)
VARIABLES
  \* the environment of the release script
  isRepo,       \* the working directory is inside a git repository
  origin,       \* a remote named origin is configured
  jq,           \* the jq command is installed
  dirty,        \* tracked files other than the release files are modified
  \* what persists between release runs
  history,      \* the commits of the current branch, oldest first
  tags,         \* the tags of the repository
  remote,       \* the tags of origin
  changelog,    \* the changelog file
  pkg,          \* package.json
  \* one run of git_tag_changelog.sh
  pc,           \* the function main is about to call, or "done" / "failed"
  cfg,          \* the globals set by the argument parser
  version,      \* main's local version
  verr,         \* determine_version reported an error in this run
  tmpRelease,   \* the temporary file the generator writes the release to
  exitStatus,   \* exit status of the run, -1 while it is running
  \* history variables
  steps,        \* the steps the run has executed, in order
  pre,          \* what persisted when the run started
  runs,         \* release runs started so far
  sections,     \* the release sections appended so far, newest first
  \* the function under check of the specifications that draw its input
  fin,          \* the input drawn
  fout,         \* what the function returned, None before the call
  \* one run of git_changelog.sh
  gpc,          \* where the script is: "idle", "parse", "enumerate", "render", "exit"
  gopt,         \* the command line: FORMAT, OUTPUT, MAX_COUNT, an unknown option
  grepo,        \* the working directory: a repository or not, and its commits
  ghashes,      \* commit_hashes, what eval "$HASH_CMD" printed
  gquery,       \* exit status of the last eval "$HASH_CMD", -1 before it
  gstdout,      \* what the script wrote to standard output
  gfile,        \* the documents written to the --output file
  gexit,        \* exit status of the script, -1 while it is running
  \* one run of a wrapper of bin/
  npc,          \* where the wrapper is: "idle", "start", "spawned", "exited"
  nin,          \* the run drawn: wrapper, arguments, script, interpreter, child
  child,        \* the child process: "none", "running", "failed", "closed"
  nexit,        \* exit code of the wrapper, "running" before it exits
  \* one call of generateShell, generatePython or generateJSON
  apc,          \* where the call is: "idle", "start", "spawned", "closed"
  ain,          \* the call drawn: method, options, and what the child does
  achild,       \* the child process: its state, what it has yet to write, its code
  output,       \* let output: the standard output accumulated
  error,        \* let error: the standard error accumulated
  promise,      \* the promise of generateShell / generatePython
  jpromise,     \* the promise of generateJSON
  \* append_to_changelog, step by step, in release runs that share the file
  appends,      \* per run: where it is, its version, release file, temporary file
  tmpOther,     \* mktemp's directory is on another filesystem than the changelog
  moved,        \* the runs that have replaced the changelog file, in order
  before        \* the changelog file before the first of these runs

relVars == <<isRepo, origin, jq, dirty, history, tags, remote, changelog, pkg,
             pc, cfg, version, verr, tmpRelease, exitStatus,
             steps, pre, runs, sections, appends, tmpOther, moved, before>>

appVars == <<appends, tmpOther, moved, before>>

fnVars == <<fin, fout>>

genVars == <<gpc, gopt, grepo, ghashes, gquery, gstdout, gfile, gexit>>

wrapVars == <<npc, nin, child, nexit>>

apiVars == <<apc, ain, achild, output, error, promise, jpromise>>

nodeVars == <<wrapVars, apiVars>>

otherVars == <<fnVars, genVars, nodeVars, appVars>>

vars == <<relVars, fnVars, genVars, nodeVars>>

None == [none |-> TRUE]

FnIdle == fin = None /\ fout = None

GenIdle ==
  /\ gpc = "idle"
  /\ gopt = None
  /\ grepo = None
  /\ ghashes = <<>>
  /\ gquery = -1
  /\ gstdout = <<>>
  /\ gfile = <<>>
  /\ gexit = -1

WrapIdle ==
  /\ npc = "idle"
  /\ nin = None
  /\ child = "none"
  /\ nexit = "running"

ApiIdle ==
  /\ apc = "idle"
  /\ ain = None
  /\ achild = None
  /\ output = <<>>
  /\ error = <<>>
  /\ promise = None
  /\ jpromise = None

NodeIdle == WrapIdle /\ ApiIdle

AppIdle ==
  /\ appends = <<>>
  /\ tmpOther = FALSE
  /\ moved = <<>>
  /\ before = None

(***************************************************************************)
(* The inputs of a release run                                             *)
(***************************************************************************)
V_1_2 == <<"1", ".", "2">>

V_2_3_9 == <<"2", ".", "3", ".", "9">>

\* the positional VERSION and --auto-increment TYPE of a run
Modes ==
  {[VERSION |-> V_2_3_9, AUTO_INCREMENT |-> ""],
   [VERSION |-> V_1_2, AUTO_INCREMENT |-> ""]}
  \cup {[VERSION |-> <<>>, AUTO_INCREMENT |-> k] : k \in {"", "patch", "minor", "bogus"}}

Configs ==
  {[VERSION |-> m.VERSION, AUTO_INCREMENT |-> m.AUTO_INCREMENT,
    DRY_RUN |-> d, FORCE |-> f, ANNOTATED |-> a, PUSH_TAG |-> p,
    TAG_PREFIX |-> TAG_PREFIX] :
     m \in Modes, d \in BOOLEAN, f \in BOOLEAN, a \in BOOLEAN, p \in BOOLEAN}

NoConfig ==
  [VERSION |-> <<>>, AUTO_INCREMENT |-> "", DRY_RUN |-> FALSE, FORCE |-> FALSE,
   ANNOTATED |-> TRUE, PUSH_TAG |-> FALSE, TAG_PREFIX |-> TAG_PREFIX]

\* what the changelog generator may leave in the temporary file: a rendered
\* release (title, generation line, sections), nothing, or a text without
\* a generation line after its first line
GenOutputs ==
  { << Txt("# Release"), <<"gen", "Generated on">>, Blank,
       Txt("## Features"), Blank, Txt("- change") >>,
    <<>>,
    << Txt("# Release"), Txt("- change") >> }

\* a package.json with a nested version on a line of its own
InitialManifest ==
  << <<Field(<<"name">>, <<"x">>, TRUE)>>,
     <<Field(<<"version">>, <<"0", ".", "1", ".", "1">>, TRUE)>>,
     <<Field(<<"config", "version">>, <<"9">>, TRUE)>> >>

\* a changelog file an earlier release has written, and its one section
ExistingSection ==
  << Blank, ReleaseHeader(<<"0", ".", "1", ".", "1">>), Blank,
     Blank, Txt("## Features"), Blank, Txt("- change"), Blank >>

ExistingChangelog == HeaderLines \o ExistingSection

\* the runs of a sequence of releases: every run that is not a dry run
ReleaseConfigs == {c \in Configs : ~c.DRY_RUN}

Persisted ==
  [history |-> history, tags |-> tags, remote |-> remote,
   changelog |-> changelog, pkg |-> pkg]

(***************************************************************************)
(* git_tag_changelog.sh: main                                              *)
(***************************************************************************)
main_next_TagFirst(at, PUSH_TAG) ==
  CASE at = "check_git_repo" -> "check_working_tree"
    [] at = "check_working_tree" -> "determine_version"
    [] at = "determine_version" -> "create_tag"
    [] at = "create_tag" -> "generate_changelog"
    [] at = "generate_changelog" -> "append_to_changelog"
    [] at = "append_to_changelog" -> "update_package_json"
    [] at = "update_package_json" -> "commit_changes"
    [] at = "commit_changes" -> IF PUSH_TAG THEN "push_tag" ELSE "complete"
    [] at = "push_tag" -> "complete"
    [] OTHER -> "done"

\* the order of the calls of main (generate_changelog calls
\* append_to_changelog as its last step)
main_next(at, PUSH_TAG) ==
  CASE at = "check_git_repo" -> "check_working_tree"
    [] at = "check_working_tree" -> "determine_version"
    [] at = "determine_version" -> "generate_changelog"
    [] at = "generate_changelog" -> "append_to_changelog"
    [] at = "append_to_changelog" -> "update_package_json"
    [] at = "update_package_json" -> "commit_changes"
    [] at = "commit_changes" -> "create_tag"
    [] at = "create_tag" -> IF PUSH_TAG THEN "push_tag" ELSE "complete"
    [] at = "push_tag" -> "complete"
    [] OTHER -> "done"

\* the name the specification gives to the step a function carries out
StepName(at) ==
  CASE at = "check_git_repo" -> "validate-repo"
    [] at = "check_working_tree" -> "validate-clean-tree"
    [] at = "determine_version" -> "determine-version"
    [] at = "generate_changelog" -> "generate-changelog-section"
    [] at = "append_to_changelog" -> "append-to-changelog-file"
    [] at = "update_package_json" -> "update-manifest-version"
    [] at = "commit_changes" -> "commit-working-tree"
    [] at = "create_tag" -> "create-tag"
    [] at = "push_tag" -> "push-tag"
    [] OTHER -> "done"

\* the step goes on to the next call of main, or the script exits
Proceed(ok, status) ==
  /\ steps' = Append(steps, StepName(pc))
  /\ IF ok
     THEN pc' = main_next(pc, cfg.PUSH_TAG) /\ exitStatus' = exitStatus
     ELSE pc' = "failed" /\ exitStatus' = status

RelInit ==
  /\ isRepo \in BOOLEAN
  /\ origin \in BOOLEAN
  /\ jq \in BOOLEAN
  /\ pkg \in {AbsentFile, File(InitialManifest)}
  /\ tags \in {{}, {Tag(TAG_PREFIX \o V_2_3_9, 1)}}
  /\ (~isRepo => origin /\ jq /\ ~pkg.exists /\ tags = {})
  /\ (~pkg.exists => jq)
  /\ dirty = FALSE
  /\ changelog \in {AbsentFile, File(ExistingChangelog)}
  /\ (~isRepo => ~changelog.exists)
  /\ history = <<Commit(changelog, pkg, <<>>)>>
  /\ remote = {}
  /\ pc = "idle"
  /\ cfg = NoConfig
  /\ version = <<>>
  /\ verr = FALSE
  /\ tmpRelease = <<>>
  /\ exitStatus = -1
  /\ steps = <<>>
  /\ pre = None
  /\ runs = 0
  /\ sections = IF changelog.exists THEN <<ExistingSection>> ELSE <<>>
  /\ AppIdle

\* a fresh repository without changelog file, package.json or tag
FreshInit ==
  /\ isRepo = TRUE
  /\ origin = TRUE
  /\ jq = TRUE
  /\ pkg = AbsentFile
  /\ tags = {}
  /\ dirty = FALSE
  /\ changelog = AbsentFile
  /\ history = <<Commit(changelog, pkg, <<>>)>>
  /\ remote = {}
  /\ pc = "idle"
  /\ cfg = NoConfig
  /\ version = <<>>
  /\ verr = FALSE
  /\ tmpRelease = <<>>
  /\ exitStatus = -1
  /\ steps = <<>>
  /\ pre = None
  /\ runs = 0
  /\ sections = <<>>
  /\ AppIdle

\* the script is started: the argument parser has set the globals
StartRunFrom(configs, dirties, max) ==
  /\ pc \in {"idle", "done", "failed"}
  /\ runs < max
  /\ runs' = runs + 1
  /\ cfg' \in configs
  /\ dirty' \in dirties
  /\ pc' = "check_git_repo"
  /\ version' = <<>>
  /\ verr' = FALSE
  /\ tmpRelease' = <<>>
  /\ exitStatus' = -1
  /\ steps' = <<>>
  /\ pre' = Persisted
  /\ UNCHANGED <<isRepo, origin, jq, history, tags, remote, changelog, pkg,
                 sections, otherVars>>

StartRun == StartRunFrom(Configs, BOOLEAN, MaxRuns)

StartRelease == StartRunFrom(ReleaseConfigs, {FALSE}, MaxReleases)

\* check_git_repo
CheckGitRepo ==
  /\ pc = "check_git_repo"
  /\ Proceed(isRepo, 1)
  /\ UNCHANGED <<isRepo, origin, jq, dirty, history, tags, remote, changelog,
                 pkg, cfg, version, verr, tmpRelease, pre, runs, sections, otherVars>>

\* check_working_tree
CheckWorkingTree ==
  /\ pc = "check_working_tree"
  /\ Proceed(check_working_tree(cfg.FORCE, dirty), 1)
  /\ UNCHANGED <<isRepo, origin, jq, dirty, history, tags, remote, changelog,
                 pkg, cfg, version, verr, tmpRelease, pre, runs, sections, otherVars>>

\* local version=$(determine_version): the status of the assignment is the
\* status of local, so main goes on whatever determine_version returned
DetermineVersion ==
  /\ pc = "determine_version"
  /\ \E latest_tag \in get_latest_tag(tags) :
       LET r == determine_version(cfg.VERSION, cfg.AUTO_INCREMENT, latest_tag,
                                  cfg.TAG_PREFIX)
       IN version' = r.out /\ verr' = r.err
  /\ Proceed(TRUE, 0)
  /\ UNCHANGED <<isRepo, origin, jq, dirty, history, tags, remote, changelog,
                 pkg, cfg, tmpRelease, pre, runs, sections, otherVars>>

\* generate_changelog up to the call of append_to_changelog: the generator
\* writes the release to the temporary file, or fails and set -e ends the
\* run; in a dry run the command is only logged
GenerateChangelog ==
  /\ pc = "generate_changelog"
  /\ IF cfg.DRY_RUN
     THEN tmpRelease' = tmpRelease /\ Proceed(TRUE, 0)
     ELSE \E ok \in BOOLEAN :
            /\ IF ok THEN tmpRelease' \in GenOutputs ELSE tmpRelease' = tmpRelease
            /\ Proceed(ok, 1)
  /\ UNCHANGED <<isRepo, origin, jq, dirty, history, tags, remote, changelog,
                 pkg, cfg, version, verr, pre, runs, sections, otherVars>>

\* the rest of generate_changelog: CURRENT_VERSION="$version" and
\* append_to_changelog; in a dry run the append is only logged
AppendToChangelog ==
  /\ pc = "append_to_changelog"
  /\ IF cfg.DRY_RUN
     THEN changelog' = changelog /\ sections' = sections
     ELSE /\ changelog' = append_to_changelog(tmpRelease, changelog, version)
          /\ sections' = IF StripTrailingBlank(tmpRelease) # <<>>
                         THEN <<ReleaseSection(StripTrailingBlank(tmpRelease), version)>>
                              \o sections
                         ELSE sections
  /\ Proceed(TRUE, 0)
  /\ UNCHANGED <<isRepo, origin, jq, dirty, history, tags, remote, pkg, cfg,
                 version, verr, tmpRelease, pre, runs, otherVars>>

\* update_package_json
UpdatePackageJson ==
  /\ pc = "update_package_json"
  /\ pkg' = update_package_json(pkg, version, jq, cfg.DRY_RUN)
  /\ Proceed(TRUE, 0)
  /\ UNCHANGED <<isRepo, origin, jq, dirty, history, tags, remote, changelog,
                 cfg, version, verr, tmpRelease, pre, runs, sections, otherVars>>

\* commit_changes
CommitChanges ==
  /\ pc = "commit_changes"
  /\ LET r == commit_changes(history, changelog, pkg, version, cfg.DRY_RUN)
     IN history' = r.history /\ Proceed(r.status = 0, r.status)
  /\ UNCHANGED <<isRepo, origin, jq, dirty, tags, remote, changelog, pkg,
                 cfg, version, verr, tmpRelease, pre, runs, sections, otherVars>>

\* create_tag
CreateTag ==
  /\ pc = "create_tag"
  /\ LET r == create_tag(tags, cfg.TAG_PREFIX \o version, Len(history),
                         cfg.FORCE, cfg.DRY_RUN)
     IN tags' = r.tags /\ Proceed(r.status = 0, r.status)
  /\ UNCHANGED <<isRepo, origin, jq, dirty, history, remote, changelog, pkg,
                 cfg, version, verr, tmpRelease, pre, runs, sections, otherVars>>

\* push_tag, called when PUSH_TAG is set
PushTag ==
  /\ pc = "push_tag"
  /\ LET r == push_tag(remote, tags, cfg.TAG_PREFIX \o version, origin, cfg.DRY_RUN)
     IN remote' = r.remote /\ Proceed(r.status = 0, r.status)
  /\ UNCHANGED <<isRepo, origin, jq, dirty, history, tags, changelog, pkg,
                 cfg, version, verr, tmpRelease, pre, runs, sections, otherVars>>

\* the end of main: the release is reported as completed (or the dry run as
\* ended) and the script exits with status 0
Complete ==
  /\ pc = "complete"
  /\ steps' = Append(steps, "done")
  /\ pc' = "done"
  /\ exitStatus' = 0
  /\ UNCHANGED <<isRepo, origin, jq, dirty, history, tags, remote, changelog,
                 pkg, cfg, version, verr, tmpRelease, pre, runs, sections, otherVars>>

RunStep ==
  \/ CheckGitRepo
  \/ CheckWorkingTree
  \/ DetermineVersion
  \/ GenerateChangelog
  \/ AppendToChangelog
  \/ UpdatePackageJson
  \/ CommitChanges
  \/ CreateTag
  \/ PushTag
  \/ Complete

Init == RelInit /\ FnIdle /\ GenIdle /\ NodeIdle

Next == StartRun \/ RunStep

Spec == Init /\ [][Next]_vars

\* release after release on a fresh repository
InitReleases == FreshInit /\ FnIdle /\ GenIdle /\ NodeIdle

NextReleases == StartRelease \/ RunStep

SpecReleases == InitReleases /\ [][NextReleases]_vars

(***************************************************************************)
(* determine_version on drawn tags                                         *)
(***************************************************************************)
Dotted(a, b, c) == a \o <<".">> \o b \o <<".">> \o c

\* the tag <prefix><M>.<m>.<p> of the version with the components nums
VersionTag(nums) ==
  TAG_PREFIX \o Dotted(ToStr(nums[1]), ToStr(nums[2]), ToStr(nums[3]))

\* tags that are not <prefix>M.m.p with decimal numerals
OddTags ==
  { <<"v", "1", ".", "0", "8", ".", "0">>,
    <<"v", "0", "1", "0", ".", "0", ".", "0">>,
    <<"2", ".", "3", ".", "9">>,
    <<"r", "1", ".", "0", ".", "0">>,
    <<"v", "1", ".", "2">>,
    <<"v", "1", ".", "2", ".", "3", ".", "4">>,
    <<"v", "1", ".", ".", "3">>,
    <<"v", "x", ".", "1", ".", "2">>,
    <<"v">> }

\* the latest tag and the --auto-increment TYPE; nums are the components the
\* tag was made of, <<>> for no tag and for an odd tag
VersionInputs ==
  {[nums |-> n, latest_tag |-> VersionTag(n), AUTO_INCREMENT |-> k] :
     n \in (0..MaxPart) \X (0..MaxPart) \X (0..MaxPart),
     k \in {"major", "minor", "patch"}}
  \cup {[nums |-> <<>>, latest_tag |-> t, AUTO_INCREMENT |-> k] :
          t \in OddTags \cup {<<>>}, k \in {"major", "minor", "patch", "bogus"}}

InitVersion ==
  /\ FreshInit
  /\ GenIdle
  /\ NodeIdle
  /\ fin \in VersionInputs
  /\ fout = None

\* determine_version without VERSION, get_latest_tag having printed the tag
CallDetermineVersion ==
  /\ fout = None
  /\ fout' = determine_version(<<>>, fin.AUTO_INCREMENT, fin.latest_tag, TAG_PREFIX)
  /\ UNCHANGED <<fin, relVars, genVars, nodeVars>>

NextVersion == CallDetermineVersion

SpecVersion == InitVersion /\ [][NextVersion]_vars

(***************************************************************************)
(* update_package_json on drawn manifests                                  *)
(***************************************************************************)
\* the lines a drawn package.json is made of
ManifestLines ==
  { <<Field(<<"name">>, <<"x">>, TRUE)>>,
    <<Field(<<"version">>, <<"0", ".", "1", ".", "1">>, TRUE)>>,
    <<Field(<<"version">>, <<"0", ".", "1", ".", "1">>, FALSE)>>,
    <<Field(<<"config", "version">>, <<"9">>, TRUE)>>,
    <<Field(<<"config", "node">>, <<"9">>, TRUE)>>,
    <<Field(<<"version">>, <<"0", ".", "1", ".", "1">>, TRUE),
      Field(<<"config", "version">>, <<"9">>, TRUE)>> }

TopVersions(m) ==
  {i \in 1..Len(Flatten(m)) : Flatten(m)[i].path = <<"version">>}

\* package.json files of 1..MaxManifestLines lines with at most one top-level
\* version key
Manifests ==
  {m \in UNION {[1..n -> ManifestLines] : n \in 1..MaxManifestLines} :
     Cardinality(TopVersions(m)) <= 1}

ManifestInputs ==
  {[package_file |-> f, version |-> v, jq |-> j, DRY_RUN |-> d] :
     f \in {AbsentFile} \cup {File(m) : m \in Manifests},
     v \in {V_2_3_9, <<"0", ".", "1", ".", "1">>},
     j \in BOOLEAN, d \in BOOLEAN}

InitManifest ==
  /\ FreshInit
  /\ GenIdle
  /\ NodeIdle
  /\ fin \in ManifestInputs
  /\ fout = None

CallUpdatePackageJson ==
  /\ fout = None
  /\ fout' = update_package_json(fin.package_file, fin.version, fin.jq, fin.DRY_RUN)
  /\ UNCHANGED <<fin, relVars, genVars, nodeVars>>

NextManifest == CallUpdatePackageJson

SpecManifest == InitManifest /\ [][NextManifest]_vars

(***************************************************************************)
(* git_changelog.sh                                                        *)
(***************************************************************************)
Opt(flag, value) == [flag |-> flag, value |-> value]

\* the arguments a drawn command line is made of
Arguments ==
  { Opt("--format", "json"), Opt("--format", "text"), Opt("--format", "invalid"),
    Opt("--output", "out.json"), Opt("--max-count", "1"),
    Opt("--title", <<"A", "\"">>),
    Opt("--include-time", ""), Opt("--help", ""), Opt("--unknown-option", "") }

\* command lines of up to two arguments
CommandLines == UNION {[1..n -> Arguments] : n \in 0..2}

\* the defaults of the script
DefaultOptions ==
  [FORMAT |-> "json", MAX_COUNT |-> "", OUTPUT |-> "", TITLE |-> <<"Changelog">>,
   INCLUDE_TIME |-> FALSE, done |-> FALSE, status |-> 0, out |-> <<>>]

Msg(text) == [kind |-> "msg", text |-> text]

\* a variant of parse_argument that stores any --format value
parse_argument_AnyFormat(o, a) ==
  CASE a.flag = "--format" -> [o EXCEPT !.FORMAT = a.value]
    [] a.flag = "--output" -> [o EXCEPT !.OUTPUT = a.value]
    [] a.flag = "--max-count" -> [o EXCEPT !.MAX_COUNT = a.value]
    [] a.flag = "--title" -> [o EXCEPT !.TITLE = a.value]
    [] a.flag = "--include-time" -> [o EXCEPT !.INCLUDE_TIME = TRUE]
    [] a.flag = "--help" -> [o EXCEPT !.done = TRUE, !.out = <<Msg("help")>>]
    [] OTHER -> [o EXCEPT !.done = TRUE, !.status = 1,
                          !.out = <<Msg("Unknown option"), Msg("help")>>]

\* one turn of the argument loop: the option is stored, or the script
\* prints on standard output and exits: with status 0 after the help, with
\* status 1 after a message about the argument
parse_argument(o, a) ==
  CASE a.flag = "--format" ->
         IF a.value # "json" /\ a.value # "text"
         THEN [o EXCEPT !.FORMAT = a.value, !.done = TRUE, !.status = 1,
                        !.out = <<Msg("Error: Format must be 'json' or 'text'")>>]
         ELSE [o EXCEPT !.FORMAT = a.value]
    [] a.flag = "--output" -> [o EXCEPT !.OUTPUT = a.value]
    [] a.flag = "--max-count" -> [o EXCEPT !.MAX_COUNT = a.value]
    [] a.flag = "--title" -> [o EXCEPT !.TITLE = a.value]
    [] a.flag = "--include-time" -> [o EXCEPT !.INCLUDE_TIME = TRUE]
    [] a.flag = "--help" -> [o EXCEPT !.done = TRUE, !.out = <<Msg("help")>>]
    [] OTHER -> [o EXCEPT !.done = TRUE, !.status = 1,
                          !.out = <<Msg("Unknown option"), Msg("help")>>]

RECURSIVE parse_arguments(_, _)
\* the argument loop, which ends at the first argument that makes it exit
parse_arguments(o, argv) ==
  IF argv = <<>> \/ o.done THEN o
  ELSE parse_arguments(parse_argument(o, argv[1]), Tail(argv))

\* eval "$HASH_CMD": git log --pretty=format:'%h' [-n MAX_COUNT] HEAD prints
\* the hashes newest first; outside a repository, and in one without a
\* commit, git fails with status 128 and prints nothing on standard output
hash_cmd(repo, MAX_COUNT) ==
  IF ~repo.isRepo \/ repo.commits = <<>>
  THEN [status |-> 128, out |-> <<>>]
  ELSE [status |-> 0,
        out |-> IF MAX_COUNT = "" THEN repo.commits ELSE HeadN(repo.commits, 1)]

\* local commit_hashes=$(eval "$HASH_CMD"): the variable gets what the
\* command printed, and the status of the assignment is the status of
\* local, whatever the command returned
hash_cmd_result(r) ==
  [commit_hashes |-> r.out, status |-> 0]

\* the working directories drawn: not a repository, or a repository with
\* 0..MaxCommits commits, newest first
Repositories ==
  {[isRepo |-> FALSE, commits |-> <<>>]}
  \cup {[isRepo |-> TRUE, commits |-> [i \in 1..n |-> n + 1 - i]] : n \in 0..MaxCommits}

Document(format, title, hashes) ==
  [kind |-> "doc", format |-> format, title |-> title, commits |-> hashes]

InitGen ==
  /\ FreshInit
  /\ FnIdle
  /\ NodeIdle
  /\ gpc = "parse"
  /\ gopt \in CommandLines
  /\ grepo \in Repositories
  /\ ghashes = <<>>
  /\ gquery = -1
  /\ gstdout = <<>>
  /\ gfile = <<>>
  /\ gexit = -1

\* the argument loop
GenParseArguments ==
  /\ gpc = "parse"
  /\ LET o == parse_arguments(DefaultOptions, gopt)
     IN /\ gstdout' = o.out
        /\ IF ~o.done
           THEN gpc' = "enumerate" /\ gexit' = gexit
           ELSE gpc' = "exit" /\ gexit' = o.status
  /\ UNCHANGED <<gopt, grepo, ghashes, gquery, gfile, relVars, fnVars, nodeVars>>

\* generate_json and gather_commit_data: the commit enumeration
GenEnumerate ==
  /\ gpc = "enumerate"
  /\ LET o == parse_arguments(DefaultOptions, gopt)
         q == hash_cmd(grepo, o.MAX_COUNT)
         r == hash_cmd_result(q)
     IN /\ gquery' = q.status
        /\ ghashes' = r.commit_hashes
        /\ IF r.status = 0
           THEN gpc' = "render" /\ gexit' = gexit
           ELSE gpc' = "exit" /\ gexit' = r.status
  /\ UNCHANGED <<gopt, grepo, gstdout, gfile, relVars, fnVars, nodeVars>>

\* the output dispatch: the document goes to the --output file, with a note
\* on standard output, or to standard output
output_dispatch(o, hashes) ==
  LET doc == Document(o.FORMAT, o.TITLE, hashes)
  IN IF o.OUTPUT # ""
     THEN [file |-> <<doc>>, stdout |-> <<Msg("Changelog written")>>]
     ELSE [file |-> <<>>, stdout |-> <<doc>>]

\* the output dispatch, after which the script ends with status 0
GenRender ==
  /\ gpc = "render"
  /\ LET r == output_dispatch(parse_arguments(DefaultOptions, gopt), ghashes)
     IN /\ gfile' = gfile \o r.file
        /\ gstdout' = gstdout \o r.stdout
  /\ gpc' = "exit"
  /\ gexit' = 0
  /\ UNCHANGED <<gopt, grepo, ghashes, gquery, relVars, fnVars, nodeVars>>

NextGen ==
  \/ GenParseArguments
  \/ GenEnumerate
  \/ GenRender

SpecGen == InitGen /\ [][NextGen]_vars

(***************************************************************************)
(* git_changelog.sh: the text of a commit and its JSON rendering           *)
(***************************************************************************)
\* characters; SOH stands for the control character U+0001
QUOTE == "\""

BACKSLASH == "\\"

TAB == "\t"

NL == "\n"

CR == "\r"

SOH == "SOH"

\* [[:space:]] among the characters drawn
IsSpace(c) == c \in {" ", TAB, NL, CR}

\* [a-zA-Z] among the characters drawn
Alpha ==
  {"a", "b", "c", "d", "e", "f", "g", "h", "i", "k", "l", "o", "p", "r",
   "s", "t", "u", "x", "y", "F", "X"}

\* tr '[:upper:]' '[:lower:]'
ToLower(s) ==
  [i \in 1..Len(s) |-> CASE s[i] = "F" -> "f" [] s[i] = "X" -> "x" [] OTHER -> s[i]]

RECURSIVE TrimLeft(_)
\* sed 's/^[[:space:]]*//'
TrimLeft(s) ==
  IF s # <<>> /\ IsSpace(s[1]) THEN TrimLeft(Tail(s)) ELSE s

RECURSIVE TrimRight(_)
\* sed 's/[[:space:]]*$//'
TrimRight(s) ==
  IF s # <<>> /\ IsSpace(s[Len(s)]) THEN TrimRight(SubSeq(s, 1, Len(s) - 1)) ELSE s

Trim(s) == TrimRight(TrimLeft(s))

\* what the sed program and tr of clean_text make of one character: sed
\* reads line by line, so its s/\n/\\n/g never matches and tr turns every
\* newline into a space; every other character passes unchanged
EscapeChar(c) ==
  CASE c = BACKSLASH -> <<BACKSLASH, BACKSLASH>>
    [] c = QUOTE -> <<BACKSLASH, QUOTE>>
    [] c = TAB -> <<BACKSLASH, "t">>
    [] c = CR -> <<BACKSLASH, "r">>
    [] c = NL -> <<" ">>
    [] OTHER -> <<c>>

\* clean_text "$text" json
clean_text(text) ==
  Trim(Flatten([i \in 1..Len(text) |-> EscapeChar(text[i])]))

\* s[i], s[i+1], ... is the text w
HasAt(s, i, w) ==
  /\ i >= 1
  /\ i + Len(w) - 1 <= Len(s)
  /\ SubSeq(s, i, i + Len(w) - 1) = w

Contains(s, w) == \E i \in 1..Len(s) : HasAt(s, i, w)

\* the first position of character c in s, 0 when there is none
FirstIndex(s, c) ==
  IF \E i \in 1..Len(s) : s[i] = c
  THEN CHOOSE i \in 1..Len(s) : s[i] = c /\ \A j \in 1..(i - 1) : s[j] # c
  ELSE 0

\* the length of the longest prefix of s made of characters of A
PrefixLen(s, A) ==
  IF \E i \in 1..Len(s) : s[i] \notin A
  THEN (CHOOSE i \in 1..Len(s) : s[i] \notin A /\ \A j \in 1..(i - 1) : s[j] \in A) - 1
  ELSE Len(s)

\* s without its first n characters and without the blanks that follow them
DropAndBlanks(s, n) ==
  LET rest == SubSeq(s, n + 1, Len(s))
  IN SubSeq(rest, PrefixLen(rest, {" "}) + 1, Len(rest))

\* [[ $subject == *"("*"): "* ]]
HasComponent(subject) ==
  \E i \in 1..Len(subject) :
    /\ subject[i] = "("
    /\ \E j \in (i + 1)..Len(subject) : HasAt(subject, j, <<")", ":", " ">>)

\* temp_subject="${subject#*\(}"; component="${temp_subject%%\)*}"
component_of(subject) ==
  LET temp_subject == SubSeq(subject, FirstIndex(subject, "(") + 1, Len(subject))
      close == FirstIndex(temp_subject, ")")
  IN IF close = 0 THEN temp_subject ELSE SubSeq(temp_subject, 1, close - 1)

\* sed 's/^[a-zA-Z]*([^)]*): *//'
SedDropTypeAndScope(subject) ==
  LET k == PrefixLen(subject, Alpha)
      rest == SubSeq(subject, k + 2, Len(subject))
      close == FirstIndex(rest, ")")
  IN IF /\ k < Len(subject)
        /\ subject[k + 1] = "("
        /\ close > 0
        /\ HasAt(rest, close + 1, <<":">>)
     THEN DropAndBlanks(subject, k + 1 + close + 1)
     ELSE subject

\* sed 's/^[a-zA-Z]*: *//'
SedDropType(subject) ==
  LET k == PrefixLen(subject, Alpha)
  IN IF HasAt(subject, k + 1, <<":">>) THEN DropAndBlanks(subject, k + 1) ELSE subject

\* the clean subject of a commit
clean_subject_of(subject) ==
  IF HasComponent(subject) THEN SedDropTypeAndScope(subject)
  ELSE IF PrefixLen(subject, Alpha) >= 1
          /\ HasAt(subject, PrefixLen(subject, Alpha) + 1, <<":">>)
       THEN SedDropType(subject)
       ELSE subject

\* [[ $subject_lower =~ ^word[:()] ]]
StartsType(lower, word) ==
  /\ HasAt(lower, 1, word)
  /\ Len(lower) > Len(word)
  /\ lower[Len(word) + 1] \in {":", "(", ")"}

\* the chain of tests that sets commit_type
commit_type_of(subject) ==
  LET l == ToLower(subject)
  IN IF StartsType(l, <<"f", "e", "a", "t">>) THEN "feat"
     ELSE IF \/ StartsType(l, <<"f", "i", "x">>)
             \/ Contains(l, <<"b", "u", "g">>)
             \/ Contains(l, <<"p", "a", "t", "c", "h">>) THEN "fix"
     ELSE IF \/ StartsType(l, <<"d", "o", "c">>)
             \/ StartsType(l, <<"d", "o", "c", "s">>) THEN "docs"
     ELSE IF StartsType(l, <<"s", "t", "y", "l", "e">>) THEN "style"
     ELSE IF StartsType(l, <<"r", "e", "f", "a", "c", "t", "o", "r">>) THEN "refactor"
     ELSE IF StartsType(l, <<"p", "e", "r", "f">>) THEN "perf"
     ELSE IF StartsType(l, <<"t", "e", "s", "t">>) THEN "test"
     ELSE IF StartsType(l, <<"c", "h", "o", "r", "e">>) THEN "chore"
     ELSE "other"

\* the codes grep looks for after "@bug:", in the order of sort
BugCodes ==
  << <<"b", "o", "u", "n", "d">>,
     <<"b", "o", "u", "n", "d", "a", "r", "y">>,
     <<"f", "l", "o", "w">>,
     <<"f", "n">>,
     <<"f", "u", "n", "c", "t", "i", "o", "n", "a", "l">>,
     <<"l", "o", "g">>,
     <<"l", "o", "g", "i", "c", "a", "l">>,
     <<"p", "e", "r", "f">>,
     <<"p", "e", "r", "f", "o", "r", "m", "a", "n", "c", "e">>,
     <<"s", "e", "c", "u", "r", "i", "t", "y">>,
     <<"u", "n", "i", "t">>,
     <<"u", "n", "i", "t", "-", "t", "e", "s", "t">>,
     <<"w", "o", "r", "k", "f", "l", "o", "w">> >>

AtBug == <<"@", "b", "u", "g", ":">>

\* the codes that match at position i of the message, after "@bug:"
CodesAt(message, i) ==
  {k \in 1..Len(BugCodes) :
     HasAt(message, i, AtBug) /\ HasAt(message, i + Len(AtBug), BugCodes[k])}

\* the longest of the codes ks
Longest(ks) ==
  CHOOSE k \in ks : \A j \in ks : Len(BugCodes[j]) <= Len(BugCodes[k])

RECURSIVE GrepBugCodes(_, _)
\* grep -oE '@bug:(fn|functional|...)' | sed 's/@bug://': the codes of the
\* matches from position i on, each match the longest at its place, the
\* search going on behind it
GrepBugCodes(message, i) ==
  IF i > Len(message) THEN {}
  ELSE IF CodesAt(message, i) = {} THEN GrepBugCodes(message, i + 1)
  ELSE LET k == Longest(CodesAt(message, i))
       IN {k} \cup GrepBugCodes(message, i + Len(AtBug) + Len(BugCodes[k]))

\* the case statement that names a code
bug_name(k) ==
  CASE BugCodes[k] = <<"f", "n">> -> "functional"
    [] BugCodes[k] = <<"l", "o", "g">> -> "logical"
    [] BugCodes[k] = <<"f", "l", "o", "w">> -> "workflow"
    [] BugCodes[k] = <<"u", "n", "i", "t">> -> "unit-test"
    [] BugCodes[k] = <<"b", "o", "u", "n", "d">> -> "boundary"
    [] BugCodes[k] = <<"s", "e", "c", "u", "r", "i", "t", "y">> -> "security"
    [] BugCodes[k] = <<"p", "e", "r", "f">> -> "performance"
    [] BugCodes[k] = <<"b", "o", "u", "n", "d", "a", "r", "y">> -> "boundary"
    [] BugCodes[k] = <<"f", "u", "n", "c", "t", "i", "o", "n", "a", "l">> -> "functional"
    [] BugCodes[k] = <<"l", "o", "g", "i", "c", "a", "l">> -> "logical"
    [] BugCodes[k] = <<"p", "e", "r", "f", "o", "r", "m", "a", "n", "c", "e">> -> "performance"
    [] BugCodes[k] = <<"u", "n", "i", "t", "-", "t", "e", "s", "t">> -> "unit-test"
    [] OTHER -> "workflow"

\* parse_bug_mentions: the names of the codes found, in the order sort -u
\* gives the codes; the empty sequence stands for the empty string
parse_bug_mentions(message) ==
  LET found == GrepBugCodes(message, 1)
      sorted == SelectSeq([k \in 1..Len(BugCodes) |-> k], LAMBDA k : k \in found)
  IN [i \in 1..Len(sorted) |-> bug_name(sorted[i])]

\* IFS=',' read -ra BRANCH_ARRAY: the fields between commas, a trailing
\* empty field dropped
ReadBranches(branches) ==
  LET f == SplitAll(branches, ",")
  IN IF branches = <<>> THEN <<>>
     ELSE IF f[Len(f)] = <<>> THEN SubSeq(f, 1, Len(f) - 1) ELSE f

\* JSON values as the script writes them: a string is written between
\* double quotes with the text as it is, a number bare, an array as its
\* strings between brackets
Str(text) == [kind |-> "string", text |-> text]

Num(text) == [kind |-> "number", text |-> text]

Arr(items) == [kind |-> "array", items |-> items]

Member(key, value) == [key |-> key, value |-> value]

\* convert_branches_to_json_array: the empty sequence stands for the empty
\* string, which the caller tests with -n
convert_branches_to_json_array(branches) ==
  LET f == ReadBranches(branches)
  IN [i \in 1..Len(f) |-> clean_text(Trim(f[i]))]

\* convert_files_to_json_array, of the lines git diff-tree printed
convert_files_to_json_array(files) ==
  LET f == SelectSeq(files, LAMBDA l : l # <<>>)
  IN [i \in 1..Len(f) |-> clean_text(Trim(f[i]))]

\* what git prints for a character of a path it quotes (core.quotePath)
QuoteChar(c) ==
  CASE c = QUOTE -> <<BACKSLASH, QUOTE>>
    [] c = BACKSLASH -> <<BACKSLASH, BACKSLASH>>
    [] c = TAB -> <<BACKSLASH, "t">>
    [] c = NL -> <<BACKSLASH, "n">>
    [] c = CR -> <<BACKSLASH, "r">>
    [] c = SOH -> <<BACKSLASH, "0", "0", "1">>
    [] OTHER -> <<c>>

\* git diff-tree --name-only prints a path with unusual characters between
\* double quotes, the characters escaped as in C
diff_tree_name(path) ==
  IF \E i \in 1..Len(path) : path[i] \in {QUOTE, BACKSLASH, TAB, NL, CR, SOH}
  THEN <<QUOTE>> \o Flatten([i \in 1..Len(path) |-> QuoteChar(path[i])]) \o <<QUOTE>>
  ELSE path

Present(cond, member) == IF cond THEN <<member>> ELSE <<>>

\* the body of the loop of generate_json: the object written for one commit
commit_object(c, INCLUDE_TIME) ==
  LET component == IF HasComponent(c.subject) THEN component_of(c.subject) ELSE <<>>
      timestamp == IF INCLUDE_TIME THEN c.timestamp ELSE <<>>
      files_array == convert_files_to_json_array(c.changed_files)
      escaped_body == clean_text(c.body)
      branches_array == convert_branches_to_json_array(c.branches)
      bug_types == parse_bug_mentions(c.subject \o <<" ">> \o c.body)
  IN <<Member("type", Str(<<commit_type_of(c.subject)>>))>>
     \o Present(component # <<>>, Member("component", Str(clean_text(component))))
     \o <<Member("commit_log", Str(clean_text(clean_subject_of(c.subject)))),
          Member("commit_hash", Str(c.hash)),
          Member("date", Str(c.date))>>
     \o Present(INCLUDE_TIME /\ timestamp # <<>>, Member("timestamp", Num(timestamp)))
     \o <<Member("author", Str(clean_text(c.author)))>>
     \o Present(branches_array # <<>>, Member("branches", Arr(branches_array)))
     \o Present(files_array # <<>>, Member("files", Arr(files_array)))
     \o Present(bug_types # <<>>,
                Member("bug", Arr([i \in 1..Len(bug_types) |-> <<bug_types[i]>>])))
     \o Present(escaped_body # <<>> /\ escaped_body # <<" ">>,
                Member("body", Str(escaped_body)))

\* generate_json: the document written for the commits enumerated
generate_json(TITLE, SINCE, INCLUDE_TIME, commits) ==
  LET title_with_period ==
        IF SINCE # <<>>
        THEN TITLE \o <<" ", "(", "since", " ">> \o SINCE \o <<")">>
        ELSE TITLE
  IN [title |-> Str(title_with_period),
      generated_on |-> Str(<<"2024-01-01 00:00:00">>),
      commits |-> [i \in 1..Len(commits) |-> commit_object(commits[i], INCLUDE_TIME)]]

(***************************************************************************)
(* generate_json on drawn commits                                          *)
(***************************************************************************)
\* the texts of up to n characters of the alphabet A
TextsOver(A, n) == UNION {[1..k -> A] : k \in 0..n}

\* texts with the characters JSON strings have to escape
SpecialTexts ==
  TextsOver({"a", " ", QUOTE, BACKSLASH, TAB, NL, CR, SOH}, MaxSpecial)

\* what git prints for a subject or an author: one line
LineTexts == {t \in SpecialTexts : \A i \in 1..Len(t) : t[i] # NL}

\* what $(git log --format='%b') leaves of a body: no newline at the end
BodyTexts == {t \in SpecialTexts : t = <<>> \/ t[Len(t)] # NL}

\* the text X of a subject "feat: X" or "feat(scope): X": it begins and
\* ends with a character that is not a blank
FeatTexts ==
  {t \in TextsOver({"a", " ", "(", ")", ":"}, MaxText) :
     t # <<>> /\ t[1] # " " /\ t[Len(t)] # " "}

FeatPrefixes ==
  { <<"f", "e", "a", "t", ":", " ">>,
    <<"f", "e", "a", "t", "(", "s", ")", ":", " ">> }

\* the words of a message with mentions; the last one is not a bug code
MentionWords ==
  { AtBug \o <<"f", "n">>,
    AtBug \o <<"f", "u", "n", "c", "t", "i", "o", "n", "a", "l">>,
    AtBug \o <<"s", "e", "c", "u", "r", "i", "t", "y">>,
    AtBug \o <<"l", "o", "g">>,
    AtBug \o <<"x">> }

RECURSIVE JoinWords(_)
JoinWords(ws) ==
  IF ws = <<>> THEN <<>>
  ELSE IF Len(ws) = 1 THEN ws[1]
  ELSE ws[1] \o <<" ">> \o JoinWords(Tail(ws))

\* messages of up to MaxMentions words
MentionMessages ==
  {JoinWords(ws) : ws \in UNION {[1..k -> MentionWords] : k \in 0..MaxMentions}}

BaseCommit ==
  [hash |-> <<"8ba6f04">>, subject |-> <<"f", "i", "x", ":", " ", "a">>,
   author |-> <<"a">>, body |-> <<>>, date |-> <<"2024-01-01">>,
   timestamp |-> <<"1704067200">>, branches |-> <<"m">>, changed_files |-> <<>>]

BaseInput ==
  [TITLE |-> <<"Changelog">>, SINCE |-> <<>>, INCLUDE_TIME |-> FALSE,
   commits |-> <<BaseCommit>>]

\* the paths of the files of a commit
Paths == { <<"a">>, <<" ", "a">>, <<"a", QUOTE>>, <<"a", BACKSLASH, "b">> }

\* the runs drawn: one part of the input varies, the others are as in
\* BaseInput
RenderInputs ==
  {[BaseInput EXCEPT !.commits = <<[BaseCommit EXCEPT !.subject = p \o x]>>] :
     p \in FeatPrefixes, x \in FeatTexts}
  \cup {[BaseInput EXCEPT !.TITLE = t] : t \in SpecialTexts}
  \cup {[BaseInput EXCEPT !.SINCE = t] : t \in LineTexts}
  \cup {[BaseInput EXCEPT !.commits = <<[BaseCommit EXCEPT !.subject = t]>>] :
          t \in LineTexts \ {<<>>}}
  \cup {[BaseInput EXCEPT !.commits =
           <<[BaseCommit EXCEPT !.subject = <<"f", "e", "a", "t", "(">> \o t
                                             \o <<")", ":", " ", "a">>]>>] :
          t \in {s \in LineTexts : \A i \in 1..Len(s) : s[i] # ")"}}
  \cup {[BaseInput EXCEPT !.commits = <<[BaseCommit EXCEPT !.author = t]>>] :
          t \in LineTexts}
  \cup {[BaseInput EXCEPT !.commits = <<[BaseCommit EXCEPT !.body = t]>>] :
          t \in BodyTexts \cup MentionMessages}
  \cup {[BaseInput EXCEPT !.INCLUDE_TIME = i,
                          !.commits = [k \in 1..n |->
                             [BaseCommit EXCEPT
                                !.branches = b,
                                !.changed_files =
                                   [j \in 1..Len(f) |-> diff_tree_name(f[j])]]]] :
          i \in BOOLEAN, n \in 0..2,
          b \in {<<>>, <<"m">>, <<"m", ",", "d">>, <<"m", QUOTE>>},
          f \in UNION {[1..k -> Paths] : k \in 0..2}}

InitRender ==
  /\ FreshInit
  /\ GenIdle
  /\ NodeIdle
  /\ fin \in RenderInputs
  /\ fout = None

CallGenerateJson ==
  /\ fout = None
  /\ fout' = generate_json(fin.TITLE, fin.SINCE, fin.INCLUDE_TIME, fin.commits)
  /\ UNCHANGED <<fin, relVars, genVars, nodeVars>>

NextRender == CallGenerateJson

SpecRender == InitRender /\ [][NextRender]_vars

(***************************************************************************)
(* bin/*.js: the wrappers                                                  *)
(***************************************************************************)
\* the code a child ends with, as Node passes it to the listeners of 'exit'
\* and 'close': the exit code, or null for a child ended by a signal
NullCode == "null"

\* process.exit(code): null and undefined leave the exit code of the
\* process at its default, 0
process_exit(code) == IF code = NullCode THEN "0" ELSE code

\* the wrappers, with the interpreter and the script each one starts
Wrappers == {"git-changelog", "git-changelog-sh", "git-changelog-py", "git-tag-changelog"}

\* the wrapper tests fs.existsSync(scriptPath) before it spawns
ChecksScript(w) == w # "git-tag-changelog"

\* the runs drawn: the wrapper, --python and --help among the arguments, the
\* script file present or not, the interpreter found or not, and the way
\* the script ends once it runs
WrapperInputs ==
  {[wrapper |-> w, python |-> p, help |-> h, scriptExists |-> s,
    interpreter |-> i, ends |-> e] :
     w \in Wrappers, p \in BOOLEAN, h \in BOOLEAN, s \in BOOLEAN, i \in BOOLEAN,
     e \in {"0", "1", "2", NullCode}}

InitWrap ==
  /\ FreshInit
  /\ FnIdle
  /\ GenIdle
  /\ ApiIdle
  /\ npc = "start"
  /\ nin \in WrapperInputs
  /\ child = "none"
  /\ nexit = "running"

\* the wrapper up to spawn: git-changelog prints its own help and exits 0;
\* a wrapper that tests for the script exits 1 when it is missing; the child
\* is spawned, which fails when the interpreter is not found
WrapStart ==
  /\ npc = "start"
  /\ IF nin.wrapper = "git-changelog" /\ nin.help
     THEN npc' = "exited" /\ nexit' = "0" /\ child' = child
     ELSE IF ChecksScript(nin.wrapper) /\ ~nin.scriptExists
     THEN npc' = "exited" /\ nexit' = "1" /\ child' = child
     ELSE IF ~nin.interpreter
     THEN npc' = "spawned" /\ nexit' = nexit /\ child' = "failed"
     ELSE npc' = "spawned" /\ nexit' = nexit /\ child' = "running"
  /\ UNCHANGED <<nin, relVars, fnVars, genVars, apiVars>>

\* child.on('error'): the child could not be spawned
WrapOnError ==
  /\ npc = "spawned"
  /\ child = "failed"
  /\ npc' = "exited"
  /\ nexit' = "1"
  /\ UNCHANGED <<nin, child, relVars, fnVars, genVars, apiVars>>

\* child.on('close') (child.on('exit') in git-tag-changelog): bash ends with
\* 127 when it does not find the script, otherwise the script ends as drawn
WrapOnClose ==
  /\ npc = "spawned"
  /\ child = "running"
  /\ child' = "closed"
  /\ npc' = "exited"
  /\ nexit' = process_exit(IF nin.scriptExists THEN nin.ends ELSE "127")
  /\ UNCHANGED <<nin, relVars, fnVars, genVars, apiVars>>

NextWrap ==
  \/ WrapStart
  \/ WrapOnError
  \/ WrapOnClose

SpecWrap == InitWrap /\ [][NextWrap]_vars

(***************************************************************************)
(* index.js: generateShell, generatePython and generateJSON                *)
(***************************************************************************)
\* the characters a JSON string may not hold unescaped, besides the double
\* quote and the backslash
ControlChars == {TAB, NL, CR, SOH}

RECURSIVE JsonStringBody(_)
\* s is what stands between the double quotes of a JSON string (RFC 8259)
JsonStringBody(s) ==
  IF s = <<>> THEN TRUE
  ELSE IF s[1] = BACKSLASH
  THEN /\ Len(s) >= 2
       /\ s[2] \in {QUOTE, BACKSLASH, "/", "b", "f", "n", "r", "t"}
       /\ JsonStringBody(SubSeq(s, 3, Len(s)))
  ELSE /\ s[1] \notin {QUOTE} \cup ControlChars
       /\ JsonStringBody(Tail(s))

RECURSIVE Unescape(_)
\* the text of a JSON string
Unescape(s) ==
  IF s = <<>> THEN <<>>
  ELSE IF s[1] = BACKSLASH
  THEN <<CASE s[2] = "t" -> TAB [] s[2] = "n" -> NL [] s[2] = "r" -> CR
           [] OTHER -> s[2]>> \o Unescape(SubSeq(s, 3, Len(s)))
  ELSE <<s[1]>> \o Unescape(Tail(s))

\* JSON.parse of what the script wrote: the object of the one JSON document
\* the text is, or a SyntaxError
JSON_parse(text) ==
  IF /\ Len(text) = 1
     /\ text[1].kind = "doc"
     /\ text[1].format = "json"
     /\ JsonStringBody(text[1].title)
  THEN [ok |-> TRUE,
        value |-> [kind |-> "object", title |-> Unescape(text[1].title),
                   commits |-> text[1].commits]]
  ELSE [ok |-> FALSE, value |-> <<>>]

\* the options objects drawn. A key holds its value; "", <<>>, 0 and FALSE
\* are the values that `if (options.key)` takes for false, and stand for a
\* key that is absent as well (undefined)
ApiOptions ==
  {[format |-> f, since |-> "", until |-> "", branch |-> "", maxCount |-> n,
    output |-> o, title |-> t, includeTime |-> i] :
     f \in {"", "text", "invalid"}, n \in {0, 1}, o \in {"", "out.json"},
     t \in {<<>>, <<"A", QUOTE>>}, i \in {FALSE}}

\* Number.prototype.toString of a count below ten
toString(n) == Digits[n + 1]

\* _buildShellArgs without the branch option
buildShellArgs_NoBranch(options) ==
  (IF options.format # "" THEN <<Opt("--format", options.format)>> ELSE <<>>)
  \o (IF options.since # "" THEN <<Opt("--since", options.since)>> ELSE <<>>)
  \o (IF options.until # "" THEN <<Opt("--until", options.until)>> ELSE <<>>)
  \o (IF options.maxCount # 0
      THEN <<Opt("--max-count", toString(options.maxCount))>> ELSE <<>>)
  \o (IF options.output # "" THEN <<Opt("--output", options.output)>> ELSE <<>>)
  \o (IF options.title # <<>> THEN <<Opt("--title", options.title)>> ELSE <<>>)
  \o (IF options.includeTime THEN <<Opt("--include-time", "")>> ELSE <<>>)

\* _buildShellArgs
buildShellArgs(options) ==
  (IF options.format # "" THEN <<Opt("--format", options.format)>> ELSE <<>>)
  \o (IF options.since # "" THEN <<Opt("--since", options.since)>> ELSE <<>>)
  \o (IF options.until # "" THEN <<Opt("--until", options.until)>> ELSE <<>>)
  \o (IF options.branch # "" THEN <<Opt("--branch", options.branch)>> ELSE <<>>)
  \o (IF options.maxCount # 0
      THEN <<Opt("--max-count", toString(options.maxCount))>> ELSE <<>>)
  \o (IF options.output # "" THEN <<Opt("--output", options.output)>> ELSE <<>>)
  \o (IF options.title # <<>> THEN <<Opt("--title", options.title)>> ELSE <<>>)
  \o (IF options.includeTime THEN <<Opt("--include-time", "")>> ELSE <<>>)

\* _buildPythonArgs
buildPythonArgs(options) ==
  (IF options.since # "" THEN <<Opt("--since", options.since)>> ELSE <<>>)
  \o (IF options.until # "" THEN <<Opt("--until", options.until)>> ELSE <<>>)
  \o (IF options.branch # "" THEN <<Opt("--branch", options.branch)>> ELSE <<>>)
  \o (IF options.maxCount # 0
      THEN <<Opt("--max-count", toString(options.maxCount))>> ELSE <<>>)
  \o (IF options.format # "" THEN <<Opt("--format", options.format)>> ELSE <<>>)
  \o (IF options.title # <<>> THEN <<Opt("--title", options.title)>> ELSE <<>>)
  \o (IF options.output # "" THEN <<Opt("--output", options.output)>> ELSE <<>>)

\* const shellOptions = { ...options, format: 'json' }
shellOptions(options) == [options EXCEPT !.format = "json"]

\* a run of git_changelog.sh as a child: what it writes to its standard
\* output and to its standard error (the message of git when the
\* enumeration fails), and its exit code
run_git_changelog(argv, repo) ==
  LET o == parse_arguments(DefaultOptions, argv)
      q == hash_cmd(repo, o.MAX_COUNT)
      r == hash_cmd_result(q)
  IN IF o.done
     THEN [out |-> [i \in 1..Len(o.out) |-> <<o.out[i]>>], err |-> <<>>,
           code |-> IF o.status = 0 THEN "0" ELSE "1"]
     ELSE [out |-> [i \in 1..Len(output_dispatch(o, r.commit_hashes).stdout) |->
                      <<output_dispatch(o, r.commit_hashes).stdout[i]>>],
           err |-> IF q.status # 0 THEN <<<<Msg("fatal")>>>> ELSE <<>>,
           code |-> "0"]

\* the calls drawn: generateShell and generateJSON start git_changelog.sh
\* with the arguments built from the options, in a drawn working directory;
\* generatePython starts a script that writes and ends as drawn; bash or
\* python3 is found or not
ApiInputs ==
  {[call |-> c, options |-> o, repo |-> r, interpreter |-> i,
    child |-> run_git_changelog(
                buildShellArgs(IF c = "generateJSON" THEN shellOptions(o) ELSE o), r)] :
     c \in {"generateShell", "generateJSON"}, o \in ApiOptions,
     r \in Repositories, i \in BOOLEAN}
  \cup {[call |-> "generatePython", options |-> None, repo |-> None, interpreter |-> i,
         child |-> [out |-> so, err |-> se, code |-> e]] :
          i \in BOOLEAN,
          so \in UNION {[1..k -> {<<Msg("a")>>, <<Msg("b")>>}] : k \in 0..MaxChunks},
          se \in {<<>>, <<<<Msg("e")>>>>},
          e \in {"0", "1", NullCode}}

Pending == [state |-> "pending", value |-> <<>>]

\* a variant of settle in which a later call of resolve or reject wins
settle_Again(p, state, value) == [state |-> state, value |-> value]

\* resolve and reject of a promise: the first call settles it, the later
\* ones do nothing
settle(p, state, value) ==
  IF p.state = "pending" THEN [state |-> state, value |-> value] ELSE p

\* new Error(error || `Process exited with code ${code}`)
exit_message(error_text, code) ==
  IF error_text # <<>> THEN error_text ELSE <<"Process exited with code ", code>>

\* a variant of generateJSON_then that hands on the text it cannot parse
generateJSON_then_Text(text) ==
  IF JSON_parse(text).ok
  THEN [state |-> "resolved", value |-> JSON_parse(text).value]
  ELSE [state |-> "resolved", value |-> [kind |-> "text", text |-> text]]

\* generateJSON once generateShell has resolved: try { return
\* JSON.parse(output) } catch { throw new Error("Failed to parse ...") }
generateJSON_then(text) ==
  IF JSON_parse(text).ok
  THEN [state |-> "resolved", value |-> JSON_parse(text).value]
  ELSE [state |-> "rejected", value |-> <<"Failed to parse JSON output: ", "SyntaxError">>]

InitApi ==
  /\ FreshInit
  /\ FnIdle
  /\ GenIdle
  /\ WrapIdle
  /\ apc = "start"
  /\ ain \in ApiInputs
  /\ achild = None
  /\ output = <<>>
  /\ error = <<>>
  /\ promise = Pending
  /\ jpromise = Pending

\* the executor of the promise up to spawn
ApiSpawn ==
  /\ apc = "start"
  /\ apc' = "spawned"
  /\ achild' = [state |-> IF ain.interpreter THEN "running" ELSE "failed",
                out |-> IF ain.interpreter THEN ain.child.out ELSE <<>>,
                err |-> IF ain.interpreter THEN ain.child.err ELSE <<>>,
                code |-> IF ain.interpreter THEN ain.child.code ELSE "-2"]
  /\ UNCHANGED <<ain, output, error, promise, jpromise, relVars, fnVars, genVars, wrapVars>>

\* child.stdout.on('data')
ApiStdoutData ==
  /\ apc = "spawned"
  /\ achild.state = "running"
  /\ achild.out # <<>>
  /\ output' = output \o Head(achild.out)
  /\ achild' = [achild EXCEPT !.out = Tail(achild.out)]
  /\ UNCHANGED <<apc, ain, error, promise, jpromise, relVars, fnVars, genVars, wrapVars>>

\* child.stderr.on('data')
ApiStderrData ==
  /\ apc = "spawned"
  /\ achild.state = "running"
  /\ achild.err # <<>>
  /\ error' = error \o Head(achild.err)
  /\ achild' = [achild EXCEPT !.err = Tail(achild.err)]
  /\ UNCHANGED <<apc, ain, output, promise, jpromise, relVars, fnVars, genVars, wrapVars>>

\* child.on('error'): the child could not be spawned
ApiOnError ==
  /\ apc = "spawned"
  /\ achild.state = "failed"
  /\ promise' = settle(promise, "rejected", <<"spawn ENOENT">>)
  /\ achild' = [achild EXCEPT !.state = "errored"]
  /\ UNCHANGED <<apc, ain, output, error, jpromise, relVars, fnVars, genVars, wrapVars>>

\* child.on('close'), which Node emits once the child has ended and its
\* streams are closed, and with a negative code after a failed spawn
ApiOnClose ==
  /\ apc = "spawned"
  /\ \/ achild.state = "running" /\ achild.out = <<>> /\ achild.err = <<>>
     \/ achild.state = "errored"
  /\ promise' = IF achild.code = "0"
                THEN settle(promise, "resolved", output)
                ELSE settle(promise, "rejected", exit_message(error, achild.code))
  /\ achild' = [achild EXCEPT !.state = "closed"]
  /\ apc' = "closed"
  /\ UNCHANGED <<ain, output, error, jpromise, relVars, fnVars, genVars, wrapVars>>

\* generateJSON after await this.generateShell(shellOptions): a rejection
\* is the rejection of generateJSON
ApiAwait ==
  /\ ain.call = "generateJSON"
  /\ promise.state # "pending"
  /\ jpromise.state = "pending"
  /\ jpromise' = IF promise.state = "rejected" THEN promise
                 ELSE generateJSON_then(promise.value)
  /\ UNCHANGED <<apc, ain, achild, output, error, promise, relVars, fnVars, genVars, wrapVars>>

NextApi ==
  \/ ApiSpawn
  \/ ApiStdoutData
  \/ ApiStderrData
  \/ ApiOnError
  \/ ApiOnClose
  \/ ApiAwait

SpecApi == InitApi /\ [][NextApi]_vars

(***************************************************************************)
(* index.js: _buildShellArgs and _buildPythonArgs on drawn options         *)
(***************************************************************************)
BuildOptions ==
  {[format |-> f, since |-> s, until |-> u, branch |-> b, maxCount |-> n,
    output |-> o, title |-> t, includeTime |-> i] :
     f \in {"", "text"}, s \in {"", "2024-01-01"}, u \in {"", "2024-12-31"},
     b \in {"", "main"}, n \in {0, 5}, o \in {"", "out.json"},
     t \in {<<>>, <<"A">>}, i \in BOOLEAN}

InitBuild ==
  /\ FreshInit
  /\ GenIdle
  /\ NodeIdle
  /\ fin \in BuildOptions
  /\ fout = None

CallBuildShellArgs ==
  /\ fout = None
  /\ fout' = [method |-> "_buildShellArgs", args |-> buildShellArgs(fin)]
  /\ UNCHANGED <<fin, relVars, genVars, nodeVars>>

CallBuildPythonArgs ==
  /\ fout = None
  /\ fout' = [method |-> "_buildPythonArgs", args |-> buildPythonArgs(fin)]
  /\ UNCHANGED <<fin, relVars, genVars, nodeVars>>

NextBuild == CallBuildShellArgs \/ CallBuildPythonArgs

SpecBuild == InitBuild /\ [][NextBuild]_vars

(***************************************************************************)
(* git_tag_changelog.sh: the command line, and the API methods that start  *)
(* the script                                                              *)
(***************************************************************************)
V_1_2_3 == <<"1", ".", "2", ".", "3">>

\* an argument that is not an option
Positional(v) == Opt("", v)

\* the globals the script starts with; exit is -1 while the script runs
ReleaseDefaults ==
  [VERSION |-> <<>>, TAG_PREFIX |-> TAG_PREFIX, MESSAGE |-> "",
   CHANGELOG_FORMAT |-> "markdown", CHANGELOG_FILE |-> <<>>,
   AUTO_INCREMENT |-> "", DRY_RUN |-> FALSE, FORCE |-> FALSE,
   ANNOTATED |-> TRUE, PUSH_TAG |-> FALSE, USE_PYTHON |-> TRUE,
   SINCE_LAST_TAG |-> TRUE, CONVENTIONAL_COMMITS |-> TRUE,
   CHANGELOG_ARGS |-> <<>>, exit |-> -1, err |-> "", unknown |-> ""]

\* one turn of the argument loop of the release script (options under
\* their long names): a global is set, or the script exits
release_parse_argument(o, a) ==
  CASE a.flag = "--help" -> [o EXCEPT !.exit = 0]
    [] a.flag = "--message" -> [o EXCEPT !.MESSAGE = a.value]
    [] a.flag = "--prefix" -> [o EXCEPT !.TAG_PREFIX = a.value]
    [] a.flag = "--output" -> [o EXCEPT !.CHANGELOG_FILE = a.value]
    [] a.flag = "--auto-increment" -> [o EXCEPT !.AUTO_INCREMENT = a.value]
    [] a.flag = "--since-last-tag" -> [o EXCEPT !.SINCE_LAST_TAG = TRUE]
    [] a.flag = "--dry-run" -> [o EXCEPT !.DRY_RUN = TRUE]
    [] a.flag = "--force" -> [o EXCEPT !.FORCE = TRUE]
    [] a.flag = "--lightweight" -> [o EXCEPT !.ANNOTATED = FALSE]
    [] a.flag = "--push" -> [o EXCEPT !.PUSH_TAG = TRUE]
    [] a.flag = "--no-conventional" -> [o EXCEPT !.CONVENTIONAL_COMMITS = FALSE]
    [] a.flag = "--no-since-last-tag" -> [o EXCEPT !.SINCE_LAST_TAG = FALSE]
    [] a.flag = "--since" ->
         [o EXCEPT !.CHANGELOG_ARGS = Append(@, Opt("--since", a.value)),
                   !.SINCE_LAST_TAG = FALSE]
    [] a.flag = "--until" ->
         [o EXCEPT !.CHANGELOG_ARGS = Append(@, Opt("--until", a.value))]
    [] a.flag = "--max-count" ->
         [o EXCEPT !.CHANGELOG_ARGS = Append(@, Opt("--max-count", a.value))]
    [] a.flag = "" ->
         IF o.VERSION = <<>> THEN [o EXCEPT !.VERSION = a.value]
         ELSE [o EXCEPT !.exit = 1, !.err = "Multiple versions specified"]
    [] OTHER -> [o EXCEPT !.exit = 1, !.err = "Unknown option", !.unknown = a.flag]

RECURSIVE release_parse_arguments(_, _)
\* while [[ $# -gt 0 ]]: the loop ends at the first argument that exits
release_parse_arguments(o, argv) ==
  IF argv = <<>> \/ o.exit # -1 THEN o
  ELSE release_parse_arguments(release_parse_argument(o, argv[1]), Tail(argv))

\* generate_changelog: the arguments of the generator it starts, given the
\* commit of the previous tag ("" when there is none)
generate_changelog_args(o, previous_tag_commit, temp_release_file, v) ==
  (IF o.SINCE_LAST_TAG /\ previous_tag_commit # ""
   THEN <<Opt("--since", previous_tag_commit)>> ELSE <<>>)
  \o << Opt("--format", o.CHANGELOG_FORMAT),
        Opt("--output", temp_release_file),
        Opt("--title", <<"Release ">> \o v) >>

\* main: CHANGELOG_FILE="CHANGELOG.md" when no --output was given
main_changelog_file(o) ==
  IF o.CHANGELOG_FILE = <<>> THEN <<"CHANGELOG.md">> ELSE o.CHANGELOG_FILE

\* the options both API methods turn into arguments, in the order of the code
tagOptionArgs(options) ==
  (IF options.message # "" THEN <<Opt("--message", options.message)>> ELSE <<>>)
  \o (IF options.prefix # <<"v">> THEN <<Opt("--prefix", options.prefix)>> ELSE <<>>)
  \o (IF options.format # "markdown" THEN <<Opt("--format", options.format)>> ELSE <<>>)
  \o (IF options.output # <<>> THEN <<Opt("--output", options.output)>> ELSE <<>>)
  \o (IF options.dryRun THEN <<Opt("--dry-run", "")>> ELSE <<>>)
  \o (IF options.force THEN <<Opt("--force", "")>> ELSE <<>>)
  \o (IF ~options.annotated THEN <<Opt("--lightweight", "")>> ELSE <<>>)
  \o (IF options.push THEN <<Opt("--push", "")>> ELSE <<>>)
  \o (IF options.usePython THEN <<Opt("--python", "")>> ELSE <<>>)
  \o (IF options.sinceLastTag THEN <<Opt("--since-last-tag", "")>> ELSE <<>>)
  \o (IF options.since # "" THEN <<Opt("--since", options.since)>> ELSE <<>>)
  \o (IF options.until # "" THEN <<Opt("--until", options.until)>> ELSE <<>>)
  \o (IF options.maxCount # 0
      THEN <<Opt("--max-count", toString(options.maxCount))>> ELSE <<>>)

\* createTagAndChangelog: the arguments after the script
createTagAndChangelog_args(v, options) ==
  (IF v # <<>> THEN <<Positional(v)>> ELSE <<>>) \o tagOptionArgs(options)

\* autoIncrementTag: the arguments after the script
autoIncrementTag_args(incrementType, options) ==
  <<Opt("--auto-increment", incrementType)>> \o tagOptionArgs(options)

\* output || `CHANGELOG-${version}.${ext}`
changelogFile(options, v) ==
  IF options.output # <<>> THEN options.output
  ELSE <<"CHANGELOG-">> \o v
       \o <<".", IF options.format = "markdown" THEN "md"
                 ELSE IF options.format = "json" THEN "json" ELSE "txt">>

\* result.stderr.match(/Version: (\d+\.\d+\.\d+)/) on the line
\* "Version: $version" the script logs
versionMatch(logged) ==
  IF validate_version(logged) THEN logged ELSE <<"unknown">>

\* what the method returns once the script has exited with the code
tag_result(call, given, options, logged, code) ==
  IF code # 0 THEN [success |-> FALSE, version |-> <<>>, changelog |-> <<>>]
  ELSE LET v == IF call = "autoIncrementTag" THEN versionMatch(logged)
                ELSE given
       IN [success |-> TRUE, version |-> v, changelog |-> changelogFile(options, v)]

\* the options objects drawn: the keys that reach the changelog vary, and
\* one object has every key set
TagOptions ==
  {[message |-> "", prefix |-> <<"v">>, format |-> f, output |-> o, dryRun |-> d,
    force |-> FALSE, annotated |-> TRUE, push |-> FALSE, usePython |-> p,
    sinceLastTag |-> s, since |-> si, until |-> "", maxCount |-> n] :
     f \in {"markdown", "json"}, o \in {<<>>, <<"NOTES.md">>}, d \in BOOLEAN,
     p \in BOOLEAN, s \in BOOLEAN, si \in {"", "2024-01-01"}, n \in {0, 5}}
  \cup {[message |-> "Major release", prefix |-> <<"r">>, format |-> "markdown",
         output |-> <<"NOTES.md">>, dryRun |-> TRUE, force |-> TRUE,
         annotated |-> FALSE, push |-> TRUE, usePython |-> FALSE,
         sinceLastTag |-> TRUE, since |-> "2024-01-01", until |-> "2024-12-31",
         maxCount |-> 5]}

\* command lines of the help text and of the README
TagCommandLines ==
  { <<Positional(V_1_2_3), Opt("--python", ""), Opt("--format", "markdown")>>,
    <<Positional(V_1_2_3), Opt("--no-since-last-tag", ""),
      Opt("--since", "2024-01-01")>>,
    <<Positional(V_1_2_3), Opt("--until", "2024-12-31"), Opt("--max-count", "5")>>,
    <<Positional(V_1_2_3), Opt("--message", "Major release"), Opt("--push", "")>>,
    <<Positional(V_1_2_3), Opt("--prefix", <<"r">>), Opt("--force", ""),
      Opt("--lightweight", ""), Opt("--no-conventional", "")>>,
    <<Opt("--auto-increment", "minor"), Opt("--dry-run", "")>>,
    <<Positional(V_1_2_3), Positional(V_1_2_3)>>,
    <<Opt("--help", "")>> }

\* the runs drawn: a call of the API or a command line, the latest tag of
\* the repository and the commit of the previous tag
TagInputs ==
  {[call |-> c, version |-> IF c = "createTagAndChangelog" THEN V_1_2_3 ELSE <<>>,
    incrementType |-> IF c = "autoIncrementTag" THEN "patch" ELSE "",
    options |-> o, argv |-> <<>>, latest_tag |-> t, previous_tag_commit |-> t] :
     c \in {"createTagAndChangelog", "autoIncrementTag"}, o \in TagOptions,
     t \in {"", "8ba6f04"}}
  \cup {[call |-> "cli", version |-> <<>>, incrementType |-> "", options |-> None,
         argv |-> a, latest_tag |-> t, previous_tag_commit |-> t] :
          a \in TagCommandLines, t \in {"", "8ba6f04"}}

\* the tag the repository holds when previous_tag_commit names its commit
LatestTagOf(t) == IF t = "" THEN <<>> ELSE VersionTag(<<1, 0, 0>>)

InitTag ==
  /\ FreshInit
  /\ GenIdle
  /\ NodeIdle
  /\ fin \in TagInputs
  /\ fout = None

\* the method builds the arguments and starts bash with the script; a
\* command line is what the user typed
TagSpawn ==
  /\ fout = None
  /\ fout' = [at |-> "spawned",
              argv |-> CASE fin.call = "createTagAndChangelog" ->
                              createTagAndChangelog_args(fin.version, fin.options)
                         [] fin.call = "autoIncrementTag" ->
                              autoIncrementTag_args(fin.incrementType, fin.options)
                         [] OTHER -> fin.argv,
              globals |-> ReleaseDefaults, version |-> <<>>,
              changelog_args |-> <<>>, written |-> <<>>, code |-> -1,
              result |-> None]
  /\ UNCHANGED <<fin, relVars, genVars, nodeVars>>

\* the argument loop of the script
TagParseArguments ==
  /\ fout # None
  /\ fout.at = "spawned"
  /\ LET g == release_parse_arguments(ReleaseDefaults, fout.argv)
     IN fout' = [fout EXCEPT !.globals = g,
                             !.at = IF g.exit = -1 THEN "main" ELSE "exited",
                             !.code = g.exit]
  /\ UNCHANGED <<fin, relVars, genVars, nodeVars>>

\* main: the version ("local version=$(determine_version)" goes on whatever
\* the status), the default changelog file, generate_changelog with the
\* arguments it builds, and the rest of the run; the generator and the steps
\* after it succeed or fail. A run that is not a dry run and whose generator
\* succeeded has written the changelog file.
TagMain ==
  /\ fout # None
  /\ fout.at = "main"
  /\ \E generated \in BOOLEAN, rest \in BOOLEAN :
       LET g == fout.globals
           v == determine_version(g.VERSION, g.AUTO_INCREMENT,
                                  LatestTagOf(fin.latest_tag), g.TAG_PREFIX)
           file == main_changelog_file(g)
       IN fout' = [fout EXCEPT
                     !.version = v.out,
                     !.changelog_args =
                        generate_changelog_args(g, fin.previous_tag_commit,
                                                <<"tmp.1">>, v.out),
                     !.written = IF ~g.DRY_RUN /\ generated THEN file ELSE <<>>,
                     !.code = IF generated /\ rest THEN 0 ELSE 1,
                     !.at = "exited"]
  /\ UNCHANGED <<fin, relVars, genVars, nodeVars>>

\* _executeCommand settles on 'close', and the method returns its object
TagReturn ==
  /\ fout # None
  /\ fout.at = "exited"
  /\ fin.call # "cli"
  /\ fout' = [fout EXCEPT
                !.result = tag_result(fin.call, fin.version, fin.options,
                                      fout.version, fout.code),
                !.at = "returned"]
  /\ UNCHANGED <<fin, relVars, genVars, nodeVars>>

NextTag ==
  \/ TagSpawn
  \/ TagParseArguments
  \/ TagMain
  \/ TagReturn

SpecTag == InitTag /\ [][NextTag]_vars

(***************************************************************************)
(* git_changelog.sh: the classifier on drawn subjects                      *)
(***************************************************************************)
\* the words a drawn subject starts with: the prefixes of the rules, two of
\* them capitalised, and a word that is no prefix
SubjectWords ==
  { <<"f", "e", "a", "t">>, <<"F", "e", "a", "t">>, <<"f", "i", "x">>,
    <<"F", "i", "x">>, <<"d", "o", "c">>, <<"d", "o", "c", "s">>,
    <<"s", "t", "y", "l", "e">>, <<"r", "e", "f", "a", "c", "t", "o", "r">>,
    <<"p", "e", "r", "f">>, <<"t", "e", "s", "t">>, <<"c", "h", "o", "r", "e">>,
    <<"a", "d", "d">> }

\* what follows the word
SubjectSeparators ==
  { <<":", " ">>, <<"(", "x", ")", ":", " ">>, <<")", " ">>, <<" ">>, <<"s", ":", " ">>,
    <<>> }

\* the rest of the subject, with or without a keyword
SubjectRests ==
  { <<"a">>, <<"a", " ", "b", "u", "g">>, <<"p", "a", "t", "c", "h">> }

ClassifierInputs ==
  {[subject |-> w \o s \o r] :
     w \in SubjectWords, s \in SubjectSeparators, r \in SubjectRests}

InitClassifier ==
  /\ FreshInit
  /\ GenIdle
  /\ NodeIdle
  /\ fin \in ClassifierInputs
  /\ fout = None

\* the chain of tests of gather_commit_data and generate_json
CallCommitType ==
  /\ fout = None
  /\ fout' = [commit_type |-> commit_type_of(fin.subject)]
  /\ UNCHANGED <<fin, relVars, genVars, nodeVars>>

NextClassifier == CallCommitType

SpecClassifier == InitClassifier /\ [][NextClassifier]_vars

(***************************************************************************)
(* git_changelog.sh: the text renderer                                     *)
(***************************************************************************)
PIPE == "|"

RECURSIVE Join(_, _)
\* the texts of ts with the text d between them
Join(ts, d) ==
  IF ts = <<>> THEN <<>>
  ELSE IF Len(ts) = 1 THEN ts[1]
  ELSE ts[1] \o d \o Join(Tail(ts), d)

\* for type in feat fix docs style refactor perf test chore other
TypeOrder ==
  <<"feat", "fix", "docs", "style", "refactor", "perf", "test", "chore", "other">>

\* echo "$body" | tr '\n' ' ' | sed 's/|/;/g' and the two trimming seds
clean_body_of(body) ==
  Trim([i \in 1..Len(body) |->
          CASE body[i] = NL -> " " [] body[i] = PIPE -> ";" [] OTHER -> body[i]])

\* what parse_bug_mentions prints: [ "name", "name" ] or nothing
bug_types_text(names) ==
  IF names = <<>> THEN <<>>
  ELSE <<"[">> \o Join([i \in 1..Len(names) |-> <<QUOTE, names[i], QUOTE>>],
                       <<",", " ">>) \o <<"]">>

\* commit_data="$hash|$clean_subject|$author|$date|$component|$branches|
\* $changed_files|$bug_types|$clean_body": the line stored for a commit
commit_data(c) ==
  Join(<< c.hash,
          clean_subject_of(c.subject),
          c.author,
          c.date,
          IF HasComponent(c.subject) THEN component_of(c.subject) ELSE <<>>,
          c.branches,
          Join(c.changed_files, <<",">>),
          bug_types_text(parse_bug_mentions(c.subject \o <<" ">> \o c.body)),
          clean_body_of(c.body) >>, <<PIPE>>)

\* gather_commit_data: the TYPE: ... ENDTYPE: blocks it prints, one for
\* each type that has a file, with the lines appended to the file in the
\* order of enumeration
gather_commit_data(commits) ==
  LET block(k) ==
        [type |-> TypeOrder[k],
         lines |-> LET of_type == SelectSeq(commits,
                                    LAMBDA c : commit_type_of(c.subject) = TypeOrder[k])
                   IN [i \in 1..Len(of_type) |-> commit_data(of_type[i])]]
  IN SelectSeq([k \in 1..Len(TypeOrder) |-> block(k)], LAMBDA b : b.lines # <<>>)

\* IFS='|' read -r hash subject author date component branches files
\* bug_types body: a variable per field, variables without a field are
\* empty, and the last one takes the rest of the line with its delimiters,
\* except that a rest of one field and a closing delimiter gives the field
read_fields(line) ==
  LET f == SplitAll(line, PIPE)
      field(i) == IF i <= Len(f) THEN f[i] ELSE <<>>
  IN [hash |-> field(1), subject |-> field(2), author |-> field(3),
      date |-> field(4), component |-> field(5), branches |-> field(6),
      files |-> field(7), bug_types |-> field(8),
      body |-> IF Len(f) < 9 THEN <<>>
               ELSE IF Len(f) = 10 /\ f[10] = <<>> THEN f[9]
               ELSE Join(SubSeq(f, 9, Len(f)), <<PIPE>>)]

\* the lines generate_text prints for one stored line that is not empty
text_entry(line) ==
  LET r == read_fields(line)
  IN << [kind |-> "bullet", component |-> r.component, subject |-> r.subject,
         hash |-> r.hash] >>
     \o (IF r.body # <<>> /\ r.body # <<" ">>
         THEN << [kind |-> "blank"], [kind |-> "body", text |-> r.body] >>
         ELSE <<>>)
     \o << [kind |-> "blank"] >>

\* generate_text: the lines printed
generate_text(TITLE, SINCE, commits) ==
  LET blocks == gather_commit_data(commits)
      section(b) ==
        << [kind |-> "header", type |-> b.type], [kind |-> "blank"] >>
        \o Flatten([i \in 1..Len(b.lines) |->
                      IF b.lines[i] # <<>> THEN text_entry(b.lines[i]) ELSE <<>>])
  IN << [kind |-> "title",
         text |-> IF SINCE # <<>>
                  THEN TITLE \o <<" ", "(", "since", " ">> \o SINCE \o <<")">>
                  ELSE TITLE],
        [kind |-> "generated"], [kind |-> "blank"] >>
     \o Flatten([k \in 1..Len(blocks) |-> section(blocks[k])])

\* the subjects of the commits drawn
TextSubjects ==
  { <<"f", "e", "a", "t", ":", " ", "a">>,
    <<"f", "e", "a", "t", "(", "s", ")", ":", " ", "a">>,
    <<"f", "i", "x", ":", " ", "a">>,
    <<"d", "o", "c", "s", ":", " ", "a">>,
    <<"c", "h", "o", "r", "e", ":", " ", "a">>,
    <<"a">>,
    <<"a", PIPE, "b">>,
    <<"f", "e", "a", "t", ":", " ", "a", PIPE, "b">> }

\* the bodies of the commits drawn
TextBodies == { <<>>, <<"b", PIPE, "c">>, <<"b", NL, "c">> }

\* up to MaxCommits commits, newest first, each with a hash of its own
TextInputs ==
  {[commits |-> [i \in 1..n |->
                   [BaseCommit EXCEPT !.hash = <<"c", Digits[i + 1]>>,
                                      !.subject = s[i], !.body = b]]] :
     n \in 0..MaxCommits, s \in [1..MaxCommits -> TextSubjects], b \in TextBodies}

InitText ==
  /\ FreshInit
  /\ GenIdle
  /\ NodeIdle
  /\ fin \in TextInputs
  /\ fout = None

CallGenerateText ==
  /\ fout = None
  /\ fout' = [lines |-> generate_text(<<"Changelog">>, <<>>, fin.commits)]
  /\ UNCHANGED <<fin, relVars, genVars, nodeVars>>

NextText == CallGenerateText

SpecText == InitText /\ [][NextText]_vars

(***************************************************************************)
(* git_tag_changelog.sh: append_to_changelog step by step                  *)
(*                                                                         *)
(* The function reads and writes the changelog file in separate commands:  *)
(* the test of existence, the echo lines of the header, the group of       *)
(* head/tail that fills the temporary file, and mv. Other runs and a       *)
(* signal come between them.                                               *)
(***************************************************************************)
\* the version of the release of run p
AppendVersion(p) == <<Digits[p + 1], ".", "0", ".", "0">>

\* a variant of mv that puts the new section of the temporary file on top
\* of what the changelog file holds now
mv_OntoCurrent(temp_changelog, changelog_file) ==
  LET later == {i \in 1..Len(temp_changelog) :
                  /\ temp_changelog[i][1] = "release"
                  /\ \E j \in 1..(i - 1) : temp_changelog[j][1] = "release"}
      end == IF later = {} THEN Len(temp_changelog)
             ELSE (CHOOSE i \in later : \A j \in later : i <= j) - 2
  IN File(SubSeq(temp_changelog, 1, end) \o TailFrom(changelog_file.lines, 5))

\* mv "$temp_changelog" "$changelog_file" on one filesystem: rename(2) puts
\* the temporary file in the place of the changelog file
mv(temp_changelog, changelog_file) == File(temp_changelog)

\* the runs drawn: each is about to call append_to_changelog with the
\* release file its generator wrote
AppendRuns(n) ==
  [1..n -> {[at |-> "check", new_release |-> c, temp_changelog |-> <<>>, seen |-> {}] :
              c \in GenOutputs}]

\* a repository in which n release runs have come to append_to_changelog
InitAppendOf(n, filesystems) ==
  /\ isRepo = TRUE
  /\ origin = TRUE
  /\ jq = TRUE
  /\ pkg = AbsentFile
  /\ tags = {}
  /\ dirty = FALSE
  /\ changelog \in {AbsentFile, File(ExistingChangelog)}
  /\ history = <<Commit(changelog, pkg, <<>>)>>
  /\ remote = {}
  /\ pc = "idle"
  /\ cfg = NoConfig
  /\ version = <<>>
  /\ verr = FALSE
  /\ tmpRelease = <<>>
  /\ exitStatus = -1
  /\ steps = <<>>
  /\ pre = None
  /\ runs = 0
  /\ sections = <<>>
  /\ appends \in AppendRuns(n)
  /\ tmpOther \in filesystems
  /\ moved = <<>>
  /\ before = changelog
  /\ FnIdle
  /\ GenIdle
  /\ NodeIdle

\* what an append step leaves alone besides the changelog file
appendFrame ==
  <<isRepo, origin, jq, dirty, history, tags, remote, pkg, pc, cfg, version,
    verr, tmpRelease, exitStatus, steps, pre, runs, sections, tmpOther, before,
    fnVars, genVars, nodeVars>>

\* [[ ! -f "$changelog_file" ]]
AppendCheck(p) ==
  /\ appends[p].at = "check"
  /\ appends' = [appends EXCEPT ![p].at = IF changelog.exists THEN "read" ELSE "header"]
  /\ UNCHANGED <<changelog, moved, appendFrame>>

\* echo "# Changelog" > "$changelog_file" and the three echo >> after it
AppendHeader(p) ==
  /\ appends[p].at = "header"
  /\ changelog' = File(HeaderLines)
  /\ appends' = [appends EXCEPT ![p].at = "read"]
  /\ UNCHANGED <<moved, appendFrame>>

\* new_content=$(cat "$new_release_file") and, when it is not empty, the
\* group { head -n 4; the release section; tail -n +5; } > "$temp_changelog"
\* on the changelog file as it is now; otherwise rm of the temporary file
AppendRead(p) ==
  /\ appends[p].at = "read"
  /\ IF StripTrailingBlank(appends[p].new_release) # <<>>
     THEN appends' = [appends EXCEPT
                        ![p].temp_changelog =
                           append_to_changelog(appends[p].new_release, changelog,
                                               AppendVersion(p)).lines,
                        ![p].seen = {moved[i] : i \in 1..Len(moved)},
                        ![p].at = "mv"]
     ELSE appends' = [appends EXCEPT ![p].at = "done"]
  /\ UNCHANGED <<changelog, moved, appendFrame>>

\* mv "$temp_changelog" "$changelog_file", both on one filesystem
AppendMove(p) ==
  /\ appends[p].at = "mv"
  /\ ~tmpOther
  /\ changelog' = mv(appends[p].temp_changelog, changelog)
  /\ moved' = Append(moved, p)
  /\ appends' = [appends EXCEPT ![p].at = "done"]
  /\ UNCHANGED appendFrame

\* mv across filesystems: rename(2) fails with EXDEV and mv copies; the
\* changelog file is emptied first
AppendMoveAcross(p) ==
  /\ appends[p].at = "mv"
  /\ tmpOther
  /\ changelog' = File(<<>>)
  /\ appends' = [appends EXCEPT ![p].at = "copy"]
  /\ UNCHANGED <<moved, appendFrame>>

\* the copy goes on: the changelog file holds more lines of the temporary
\* file, and all of them when the copy ends
AppendCopy(p) ==
  /\ appends[p].at = "copy"
  /\ \E k \in (Len(changelog.lines) + 1)..Len(appends[p].temp_changelog) :
       /\ changelog' = File(SubSeq(appends[p].temp_changelog, 1, k))
       /\ IF k = Len(appends[p].temp_changelog)
          THEN /\ appends' = [appends EXCEPT ![p].at = "done"]
               /\ moved' = Append(moved, p)
          ELSE UNCHANGED <<appends, moved>>
  /\ UNCHANGED appendFrame

\* a signal ends the run where it is
AppendInterrupt(p) ==
  /\ appends[p].at \notin {"done", "killed"}
  /\ appends' = [appends EXCEPT ![p].at = "killed"]
  /\ UNCHANGED <<changelog, moved, appendFrame>>

\* MaxAppends runs on one filesystem, none interrupted
InitAppend == InitAppendOf(MaxAppends, {FALSE})

NextAppend ==
  \E p \in DOMAIN appends :
    \/ AppendCheck(p)
    \/ AppendHeader(p)
    \/ AppendRead(p)
    \/ AppendMove(p)

SpecAppend == InitAppend /\ [][NextAppend]_vars

\* one run, which a signal may end, with the temporary file on the
\* filesystem of the changelog file or on another one
InitInterrupt == InitAppendOf(1, BOOLEAN)

NextInterrupt ==
  \E p \in DOMAIN appends :
    \/ AppendCheck(p)
    \/ AppendHeader(p)
    \/ AppendRead(p)
    \/ AppendMove(p)
    \/ AppendMoveAcross(p)
    \/ AppendCopy(p)
    \/ AppendInterrupt(p)

SpecInterrupt == InitInterrupt /\ [][NextInterrupt]_vars

(***************************************************************************)
(* Properties                                                              *)
(***************************************************************************)
Range(q) == {q[i] : i \in 1..Len(q)}

Last(q) == q[Len(q)]

Ended == pc \in {"done", "failed"}

\* the steps of a complete run, in the order of the release state machine
ExpectedSteps(PUSH_TAG) ==
  <<"validate-repo", "validate-clean-tree", "determine-version",
    "generate-changelog-section", "append-to-changelog-file",
    "update-manifest-version", "commit-working-tree", "create-tag">>
  \o (IF PUSH_TAG THEN <<"push-tag">> ELSE <<>>) \o <<"done">>

\* C1: in a run with --dry-run, whatever the other flags, nothing that
\* persists changes: tags, tags of origin, changelog file, package.json and
\* commit history are what they were when the run started.
C1_DryRunMutatesNothing ==
  (runs > 0 /\ cfg.DRY_RUN) => Persisted = pre

\* a dry run with --force and --push that reached the end of main, on a
\* repository that has a changelog file, a package.json and a tag
C1_Witness ==
  /\ runs > 0 /\ cfg.DRY_RUN /\ cfg.FORCE /\ cfg.PUSH_TAG /\ ~cfg.ANNOTATED
  /\ pc = "done"
  /\ changelog.exists /\ pkg.exists /\ tags # {}

\* C2: when version determination reports an error, the run ends with a
\* non-zero exit status and has created no tag, written neither the
\* changelog file nor package.json, and committed nothing.
C2_VersionErrorStopsRun ==
  (runs > 0 /\ verr) =>
    /\ tags = pre.tags /\ changelog = pre.changelog
    /\ pkg = pre.pkg /\ history = pre.history
    /\ (Ended => exitStatus # 0)

ConflictOrValidationFailure ==
  /\ pc = "failed"
  /\ \/ Last(steps) \in {"validate-clean-tree", "determine-version", "create-tag"}
     \/ Last(steps) = "push-tag" /\ ~origin

\* C4: when a run fails with a state conflict or a validation error, the
\* changelog file, package.json and the commit history are what they were
\* before the run.
C4_FailedRunKeepsArtifacts ==
  (runs > 0 /\ ConflictOrValidationFailure) =>
    /\ changelog = pre.changelog
    /\ pkg = pre.pkg
    /\ history = pre.history

\* the version auto-increment is to give for the components nums
Incremented(nums, kind) ==
  CASE kind = "major" -> Dotted(ToStr(nums[1] + 1), <<"0">>, <<"0">>)
    [] kind = "minor" -> Dotted(ToStr(nums[1]), ToStr(nums[2] + 1), <<"0">>)
    [] kind = "patch" -> Dotted(ToStr(nums[1]), ToStr(nums[2]), ToStr(nums[3] + 1))

Called == fout # None

\* C5: auto-increment of the latest tag <prefix>M.m.p gives (M+1).0.0 for
\* major, M.(m+1).0 for minor and M.m.(p+1) for patch, from 0.0.0 when the
\* repository has no tag; v2.3.9 gives 3.0.0, 2.4.0 and 2.3.10, and no tag
\* with patch gives 0.0.1.
C5_AutoIncrement ==
  Called =>
    /\ (fin.nums # <<>> =>
          fout = [out |-> Incremented(fin.nums, fin.AUTO_INCREMENT),
                  status |-> 0, err |-> FALSE])
    /\ (fin.latest_tag = <<>> /\ fin.AUTO_INCREMENT # "bogus" =>
          fout.out = Incremented(<<0, 0, 0>>, fin.AUTO_INCREMENT))
    /\ (fin.latest_tag = <<>> /\ fin.AUTO_INCREMENT = "patch" =>
          fout.out = <<"0", ".", "0", ".", "1">>)
    /\ (fin.latest_tag = <<"v", "2", ".", "3", ".", "9">> =>
          fout.out = CASE fin.AUTO_INCREMENT = "major" -> <<"3", ".", "0", ".", "0">>
                       [] fin.AUTO_INCREMENT = "minor" -> <<"2", ".", "4", ".", "0">>
                       [] fin.AUTO_INCREMENT = "patch" ->
                            <<"2", ".", "3", ".", "1", "0">>)

\* minor was asked for the latest tag v2.3.9 and 2.4.0 came out
C5_Witness ==
  /\ Called
  /\ fin.latest_tag = <<"v", "2", ".", "3", ".", "9">>
  /\ fin.AUTO_INCREMENT = "minor"
  /\ fout.out = <<"2", ".", "4", ".", "0">>

\* C6: without --force a dirty working tree ends the run with a non-zero
\* exit status at validate-clean-tree, before the version is determined and
\* before anything that persists has changed; with --force the check never
\* ends the run.
C6_DirtyTreeStopsRun ==
  runs > 0 =>
    /\ (~cfg.FORCE /\ dirty =>
          /\ "determine-version" \notin Range(steps)
          /\ version = <<>>
          /\ Persisted = pre
          /\ ("validate-clean-tree" \in Range(steps) =>
                pc = "failed" /\ exitStatus # 0))
    /\ (cfg.FORCE /\ "validate-clean-tree" \in Range(steps) =>
          ~(pc = "failed" /\ Last(steps) = "validate-clean-tree"))

\* a run without --force on a dirty tree that has ended at the check
C6_Witness ==
  /\ runs > 0 /\ ~cfg.FORCE /\ dirty
  /\ pc = "failed" /\ Last(steps) = "validate-clean-tree"

\* C7: in a run without --force every tag that existed before the run still
\* exists and names the same commit, and create-tag ends the run with an
\* error when the tag <prefix><version> exists.
C7_NoForceKeepsTags ==
  (runs > 0 /\ ~cfg.FORCE) =>
    /\ pre.tags \subseteq tags
    /\ (("create-tag" \in Range(steps)
         /\ tag_exists(pre.tags, cfg.TAG_PREFIX \o version)) =>
          pc = "failed" /\ exitStatus # 0 /\ tags = pre.tags)

\* a run that is not dry, without --force, has committed its release and
\* ended at create-tag because the tag exists
C7_Witness ==
  /\ runs > 0 /\ ~cfg.FORCE /\ ~cfg.DRY_RUN
  /\ pc = "failed" /\ Last(steps) = "create-tag"
  /\ history # pre.history
  /\ tags # {}

IsReleaseLine(l) == l[1] = "release"

\* C8: on a changelog file that did not exist at the start, after any
\* sequence of release runs the file is the 4-line header followed by the
\* release sections appended so far, the most recent first, each with all
\* its lines in their order; its release headers are those of the runs that
\* appended, most recent first.
C8_ChangelogNewestFirst ==
  changelog.exists =>
    /\ HeadN(changelog.lines, 4) = HeaderLines
    /\ changelog.lines = HeaderLines \o Flatten(sections)
    /\ SelectSeq(changelog.lines, IsReleaseLine)
         = [i \in 1..Len(sections) |-> sections[i][2]]

\* two completed releases have each appended a section, of different versions
C8_Witness ==
  /\ pc = "done" /\ runs = 2
  /\ Len(sections) = 2
  /\ sections[1][2] # sections[2][2]
  /\ Len(changelog.lines) > 4 + Len(sections[1])

NotTopVersion(f) == f.path # <<"version">>

\* C9: update-manifest-version sets the top-level version of package.json
\* to the new version and leaves every other field and value as it was,
\* with jq and with sed; without a package.json nothing is created.
C9_OnlyTopLevelVersionChanges ==
  Called =>
    /\ (~fin.package_file.exists => ~fout.exists)
    /\ (fin.package_file.exists =>
          /\ fout.exists
          /\ SelectSeq(ManifestFields(fout.lines), NotTopVersion)
               = SelectSeq(ManifestFields(fin.package_file.lines), NotTopVersion)
          /\ (~fin.DRY_RUN =>
                \A i \in 1..Len(ManifestFields(fout.lines)) :
                  ~NotTopVersion(ManifestFields(fout.lines)[i]) =>
                    ManifestFields(fout.lines)[i].val = fin.version))

IsDocument(x) == x.kind = "doc"

\* C10: when the commit-enumeration query fails, the run of the generator
\* ends with a non-zero exit status and has emitted no changelog document,
\* neither on standard output nor in the output file.
C10_FailedQueryFailsRun ==
  (gpc = "exit" /\ gquery > 0) =>
    /\ gexit # 0
    /\ SelectSeq(gstdout, IsDocument) = <<>>
    /\ gfile = <<>>

\* the value is written as a well-formed JSON value of its kind
WellFormedValue(v) ==
  CASE v.kind = "string" -> JsonStringBody(v.text)
    [] v.kind = "number" -> v.text # <<>>
    [] v.kind = "array" -> \A i \in 1..Len(v.items) : JsonStringBody(v.items[i])

Keys(object) == {object[i].key : i \in 1..Len(object)}

\* the value of the member of the object with the key
ValueOf(object, key) ==
  (CHOOSE m \in Range(object) : m.key = key).value

\* C11: for every title, --since value, subject, author, component, body,
\* branch name and file path, with double quotes, backslashes, tabs,
\* newlines and control characters among their characters, the JSON
\* renderer writes a well-formed document: a string title, a string
\* generated_on and an array of commit objects with well-formed values.
C11_JsonWellFormed ==
  Called =>
    /\ fout.title.kind = "string" /\ WellFormedValue(fout.title)
    /\ fout.generated_on.kind = "string" /\ WellFormedValue(fout.generated_on)
    /\ \A i \in 1..Len(fout.commits) :
         \A m \in Range(fout.commits[i]) : WellFormedValue(m.value)

OptionalKeys == {"component", "timestamp", "branches", "files", "bug", "body"}

RequiredKeys == {"type", "commit_log", "commit_hash", "date", "author"}

IsEmptyValue(v) ==
  CASE v.kind = "array" -> v.items = <<>>
    [] OTHER -> v.text = <<>>

\* C12: in every commit object, component, timestamp, branches, files, bug
\* and body are present only with a value that is not empty (timestamp only
\* with --include-time), and type, commit_log, commit_hash, date and author
\* are always present.
C12_OptionalKeysOnlyWhenSet ==
  Called =>
    \A i \in 1..Len(fout.commits) :
      LET object == fout.commits[i]
      IN /\ RequiredKeys \subseteq Keys(object)
         /\ Keys(object) \subseteq RequiredKeys \cup OptionalKeys
         /\ \A k \in Keys(object) \cap OptionalKeys : ~IsEmptyValue(ValueOf(object, k))
         /\ ("timestamp" \in Keys(object) => fin.INCLUDE_TIME)

\* C13: a subject "feat: X" or "feat(scope): X" is given the type feat, and
\* its cleaned subject is X, without the prefix.
C13_FeatSubjectCleaned ==
  Called =>
    \A i \in 1..Len(fin.commits) : \A p \in FeatPrefixes :
      LET subject == fin.commits[i].subject
          X == SubSeq(subject, Len(p) + 1, Len(subject))
      IN (IsPrefixOf(p, subject) /\ X \in FeatTexts) =>
           /\ ValueOf(fout.commits[i], "type").text = <<"feat">>
           /\ ValueOf(fout.commits[i], "commit_log").text = X

\* the label of a word of a message, "" for a word that is no mention
LabelOf(word) ==
  LET code == SubSeq(word, Len(AtBug) + 1, Len(word))
  IN IF ~IsPrefixOf(AtBug, word) THEN ""
     ELSE IF code \in {<<"f", "n">>, <<"f", "u", "n", "c", "t", "i", "o", "n", "a", "l">>}
     THEN "functional"
     ELSE IF code \in {<<"l", "o", "g">>, <<"l", "o", "g", "i", "c", "a", "l">>}
     THEN "logical"
     ELSE IF code = <<"s", "e", "c", "u", "r", "i", "t", "y">> THEN "security"
     ELSE ""

\* the labels mentioned in the message of a commit
Mentioned(c) ==
  {LabelOf(w) : w \in Range(SplitAll(c.subject \o <<" ">> \o c.body, " "))} \ {""}

\* the bug list of a commit object, empty when the key is absent
BugList(object) ==
  IF "bug" \in Keys(object)
  THEN [i \in 1..Len(ValueOf(object, "bug").items) |-> ValueOf(object, "bug").items[i][1]]
  ELSE <<>>

\* C14: the bug list of a commit holds exactly the canonical labels of the
\* codes its message mentions, each label once even when the short and the
\* long alias are both mentioned, and it is the same for every order of the
\* mentions.
C14_BugLabelsOnce ==
  Called =>
    \A i \in 1..Len(fin.commits) :
      LET c == fin.commits[i]
          bugs == BugList(fout.commits[i])
          words == SplitAll(c.body, " ")
      IN /\ Range(bugs) = Mentioned(c)
         /\ Len(bugs) = Cardinality(Mentioned(c))
         /\ \A f \in [1..Len(words) -> 1..Len(words)] :
              (\A a, b \in 1..Len(words) : a # b => f[a] # f[b]) =>
                parse_bug_mentions(c.subject \o <<" ">>
                                   \o JoinWords([k \in 1..Len(words) |-> words[f[k]]]))
                  = bugs

\* the argument is one the argument loop rejects
IsRejected(a) ==
  \/ a.flag = "--format" /\ a.value \notin {"json", "text"}
  \/ a.flag \notin {"--format", "--output", "--max-count", "--title",
                     "--include-time", "--help"}

\* the argument loop comes to a rejected argument: none before it ends the
\* script with the help
MeetsRejected(argv) ==
  \E i \in 1..Len(argv) :
    IsRejected(argv[i]) /\ \A j \in 1..(i - 1) : argv[j].flag # "--help"

IsErrorMessage(x) ==
  /\ x.kind = "msg"
  /\ x.text \in {"Error: Format must be 'json' or 'text'", "Unknown option"}

C17_WrapperExitsZeroOnlyOnSuccess ==
  (npc = "exited" /\ ~(nin.wrapper = "git-changelog" /\ nin.help)) =>
    (nexit = "0" <=>
       (child = "closed" /\ nin.scriptExists /\ nin.ends = "0"))

\* the promise is settled as the way the child ended requires
SettledAsChildEnded ==
  /\ promise.state # "pending"
  /\ (promise.state = "resolved" <=> (ain.interpreter /\ ain.child.code = "0"))
  /\ (promise.state = "resolved" => promise.value = Flatten(ain.child.out))
  /\ (~ain.interpreter => promise.value = <<"spawn ENOENT">>)
  /\ ((ain.interpreter /\ ain.child.code # "0") =>
        promise.value = IF ain.child.err # <<>> THEN Flatten(ain.child.err)
                        ELSE <<"Process exited with code ", ain.child.code>>)

\* C18: the promise of generateShell / generatePython settles once and
\* stays as settled: resolved with the whole standard output exactly when
\* the child closes with code 0, otherwise rejected with the standard error
\* accumulated, or with "Process exited with code N" when that is empty; a
\* spawn error rejects it.
C18_PromiseSettlesOnce ==
  /\ [](apc = "closed" => SettledAsChildEnded)
  /\ [][promise.state # "pending" => promise' = promise]_vars

\* a failed spawn: 'error' has rejected the promise, and 'close' has come
\* after it
C18_Witness ==
  /\ apc = "closed"
  /\ ~ain.interpreter
  /\ promise.state = "rejected"

\* C19: generateJSON resolves with the object parsed from what the shell
\* generator wrote, and rejects with an Error "Failed to parse JSON output"
\* when that is not valid JSON; it never resolves with unparsed text,
\* whatever format or output the options hold.
C19_GenerateJsonParsesOrRejects ==
  (apc # "idle" /\ ain.call = "generateJSON" /\ jpromise.state # "pending") =>
    /\ (jpromise.state = "resolved" =>
          /\ jpromise.value.kind = "object"
          /\ JSON_parse(output).ok
          /\ jpromise.value = JSON_parse(output).value)
    /\ ((promise.state = "resolved" /\ ~JSON_parse(output).ok) =>
          /\ jpromise.state = "rejected"
          /\ jpromise.value[1] = "Failed to parse JSON output: ")

\* options with format text and an output file: generateJSON has rejected
\* with the parse error
C19_Witness ==
  /\ apc # "idle"
  /\ ain.call = "generateJSON"
  /\ ain.options.format = "text"
  /\ ain.options.output # ""
  /\ jpromise.state = "rejected"
  /\ jpromise.value[1] = "Failed to parse JSON output: "

\* C20: a run with --push and without --dry-run in a repository without
\* the remote origin pushes nothing, does not report the release as
\* completed, and ends with an exit status other than 0.
C20_PushWithoutOriginFails ==
  (pc # "idle" /\ cfg.PUSH_TAG /\ ~cfg.DRY_RUN /\ ~origin) =>
    /\ remote = pre.remote
    /\ pc # "done"
    /\ "done" \notin Range(steps)
    /\ (pc = "failed" => exitStatus # 0)

\* such a run has come to push_tag and failed there
C20_Witness ==
  /\ pc = "failed"
  /\ cfg.PUSH_TAG /\ ~cfg.DRY_RUN /\ ~origin
  /\ steps # <<>>
  /\ Last(steps) = "push-tag"

\* the options of the README's list and the flags the API methods push
DocumentedFlags ==
  {"--message", "--prefix", "--format", "--output", "--dry-run", "--force",
   "--lightweight", "--push", "--python", "--since-last-tag", "--since",
   "--until", "--max-count"}

\* C21: every option the README documents for the tag tool and every flag
\* createTagAndChangelog and autoIncrementTag put on the command line is
\* accepted by the argument loop of the release script: the run does not
\* end with "Unknown option" for one of them.
C21_DocumentedOptionsAccepted ==
  (fout # None /\ fout.at # "spawned") =>
    ~(fout.globals.err = "Unknown option" /\ fout.globals.unknown \in DocumentedFlags)

\* the rule of the claim: the word and then ':' or '('
FollowedByColonOrParen(lower, word) ==
  /\ HasAt(lower, 1, word)
  /\ Len(lower) > Len(word)
  /\ lower[Len(word) + 1] \in {":", "("}

\* the type of the conventional prefix of a lower-cased subject, "" without one
PrefixType(l) ==
  IF FollowedByColonOrParen(l, <<"f", "e", "a", "t">>) THEN "feat"
  ELSE IF FollowedByColonOrParen(l, <<"f", "i", "x">>) THEN "fix"
  ELSE IF \/ FollowedByColonOrParen(l, <<"d", "o", "c">>)
          \/ FollowedByColonOrParen(l, <<"d", "o", "c", "s">>) THEN "docs"
  ELSE IF FollowedByColonOrParen(l, <<"s", "t", "y", "l", "e">>) THEN "style"
  ELSE IF FollowedByColonOrParen(l, <<"r", "e", "f", "a", "c", "t", "o", "r">>)
       THEN "refactor"
  ELSE IF FollowedByColonOrParen(l, <<"p", "e", "r", "f">>) THEN "perf"
  ELSE IF FollowedByColonOrParen(l, <<"t", "e", "s", "t">>) THEN "test"
  ELSE IF FollowedByColonOrParen(l, <<"c", "h", "o", "r", "e">>) THEN "chore"
  ELSE ""

HasKeyword(l) ==
  Contains(l, <<"b", "u", "g">>) \/ Contains(l, <<"p", "a", "t", "c", "h">>)

\* the first rule that matches, in the order feat, fix or keyword, docs,
\* style, refactor, perf, test, chore, other
FirstMatchingRule(subject) ==
  LET l == ToLower(subject)
  IN IF PrefixType(l) = "feat" THEN "feat"
     ELSE IF PrefixType(l) = "fix" \/ HasKeyword(l) THEN "fix"
     ELSE IF PrefixType(l) # "" THEN PrefixType(l)
     ELSE "other"

\* C22: the classifier gives every subject the type of the first rule that
\* matches its lower-cased form: feat followed by ':' or '('; fix followed
\* by ':' or '(', or "bug" or "patch" anywhere; doc/docs, style, refactor,
\* perf, test, chore followed by ':' or '('; otherwise other.
C22_TypeOfFirstMatchingRule ==
  fout # None => fout.commit_type = FirstMatchingRule(fin.subject)

\* C23: a subject with a conventional prefix (the word followed by ':' or
\* '(') that also holds "bug" or "patch" gets the type of its prefix, not
\* fix by keyword.
C23_PrefixBeforeKeyword ==
  (fout # None /\ PrefixType(ToLower(fin.subject)) # "" /\ HasKeyword(ToLower(fin.subject)))
    => fout.commit_type = PrefixType(ToLower(fin.subject))

\* the section headers and the bullets (subject and hash) of rendered text
Outline(lines) ==
  LET kept == SelectSeq(lines, LAMBDA l : l.kind \in {"header", "bullet"})
  IN [i \in 1..Len(kept) |->
        IF kept[i].kind = "header" THEN <<"header", kept[i].type>>
        ELSE <<"bullet", kept[i].subject, kept[i].hash>>]

\* a header for each type that has a commit, in the fixed order, and under
\* it a bullet for each commit of the type, in the order of enumeration,
\* with the cleaned subject and the hash of the commit
ExpectedOutline(commits) ==
  LET section(k) ==
        LET of_type == SelectSeq(commits,
                         LAMBDA c : commit_type_of(c.subject) = TypeOrder[k])
        IN IF of_type = <<>> THEN <<>>
           ELSE << <<"header", TypeOrder[k]>> >>
                \o [i \in 1..Len(of_type) |->
                      <<"bullet", clean_subject_of(of_type[i].subject), of_type[i].hash>>]
  IN Flatten([k \in 1..Len(TypeOrder) |-> section(k)])

\* C24: the text renderer emits every enumerated commit once, in the
\* section of its type, sections in the order feat, fix, docs, style,
\* refactor, perf, test, chore, other, a header only for a type that has a
\* commit, commits in the order of enumeration, each bullet with the full
\* cleaned subject and the hash of its commit, whatever the subject holds.
C24_TextListsEveryCommit ==
  fout # None => Outline(fout.lines) = ExpectedOutline(fin.commits)

HasSection(file, p) ==
  \E i \in 1..Len(file.lines) : file.lines[i] = ReleaseHeader(AppendVersion(p))

\* both runs have replaced the changelog file, and each of them had read it
\* before the other replaced it
Raced(p, q) ==
  /\ p # q
  /\ appends[p].at = "done" /\ appends[q].at = "done"
  /\ \E i \in 1..Len(moved) : moved[i] = p
  /\ \E i \in 1..Len(moved) : moved[i] = q
  /\ q \notin appends[p].seen
  /\ p \notin appends[q].seen

\* C25: the append is unsafe under concurrency: once two release runs have
\* both read the changelog file before either of them replaced it, the file
\* lacks the release section of one of the two, and it does so from then on.
C25_RacingAppendsLoseSection ==
  \A p \in DOMAIN appends : \A q \in DOMAIN appends :
    Raced(p, q) => ~(HasSection(changelog, p) /\ HasSection(changelog, q))

\* two runs raced on a changelog file that existed: the file holds the
\* section of one run and the earlier section, and not the section of the
\* other run, which had replaced the file as well
C25_Witness ==
  \E p \in DOMAIN appends : \E q \in DOMAIN appends :
    /\ Raced(p, q)
    /\ before.exists
    /\ HasSection(changelog, p)
    /\ ~HasSection(changelog, q)
    /\ \E i \in 1..Len(appends[q].temp_changelog) :
         appends[q].temp_changelog[i] = ReleaseHeader(AppendVersion(q))

\* C26: the --since, --until and --max-count values given to the release
\* tool are among the arguments of the changelog generator the run starts.
C26_RangeOptionsReachGenerator ==
  (fout # None /\ fout.at \in {"exited", "returned"} /\ fout.changelog_args # <<>>) =>
    \A i \in 1..Len(fout.globals.CHANGELOG_ARGS) :
      \E j \in 1..Len(fout.changelog_args) :
        /\ fout.changelog_args[j].flag = fout.globals.CHANGELOG_ARGS[i].flag
        /\ fout.changelog_args[j].value = fout.globals.CHANGELOG_ARGS[i].value

\* C27: in auto-increment mode, whenever determine_version returns with
\* status 0 and the run goes on, the version it printed matches
\* ^[0-9]+\.[0-9]+\.[0-9]+$, whatever the name of the latest tag.
C27_AutoIncrementGivesSemver ==
  (fout # None /\ fin.AUTO_INCREMENT # "" /\ fout.status = 0) =>
    validate_version(fout.out)

\* C28: when createTagAndChangelog or autoIncrementTag returns success true
\* for a call without output option, the changelog of the returned object
\* is the path of the file the release script wrote the changelog to.
C28_ReturnedChangelogIsWrittenFile ==
  (/\ fout # None
   /\ fout.at = "returned"
   /\ fout.result.success
   /\ fin.options.output = <<>>
   /\ fout.written # <<>>)
    => fout.result.changelog = fout.written

\* C29: while and after one run executes append_to_changelog on a changelog
\* file that existed, interrupted or not, the file holds its complete
\* previous content or the complete new content.
C29_AppendIsAllOrNothing ==
  before.exists =>
    \/ changelog = before
    \/ changelog = append_to_changelog(appends[1].new_release, before,
                                       AppendVersion(1))

\* the flag and value the claim expects for each option that is set ("", 0,
\* <<>> and FALSE being the values of an option that is not)
ExpectedArgs(options, method) ==
  (IF options.format # "" THEN {Opt("--format", options.format)} ELSE {})
  \cup (IF options.since # "" THEN {Opt("--since", options.since)} ELSE {})
  \cup (IF options.until # "" THEN {Opt("--until", options.until)} ELSE {})
  \cup (IF options.branch # "" THEN {Opt("--branch", options.branch)} ELSE {})
  \cup (IF options.maxCount # 0
        THEN {Opt("--max-count", Digits[options.maxCount + 1])} ELSE {})
  \cup (IF options.output # "" THEN {Opt("--output", options.output)} ELSE {})
  \cup (IF options.title # <<>> THEN {Opt("--title", options.title)} ELSE {})
  \cup (IF method = "_buildShellArgs" /\ options.includeTime
        THEN {Opt("--include-time", "")} ELSE {})

\* C30: _buildShellArgs and _buildPythonArgs return, for every options
\* object, exactly one flag with its value as a string for each supported
\* option that is set, and the bare flag --include-time from _buildShellArgs
\* when includeTime is set; nothing for an option that is absent, and the
\* empty list for the empty object.
C30_ArgsAreTheSetOptions ==
  fout # None =>
    /\ Range(fout.args) = ExpectedArgs(fin, fout.method)
    /\ Len(fout.args) = Cardinality(ExpectedArgs(fin, fout.method))

\* _buildShellArgs has been called with every option set, and
\* _buildPythonArgs with none
C30_Witness ==
  /\ fout # None
  /\ \/ /\ fout.method = "_buildShellArgs"
        /\ fin.branch # "" /\ fin.maxCount # 0 /\ fin.includeTime
        /\ Len(fout.args) = 8
     \/ /\ fout.method = "_buildPythonArgs"
        /\ fin.branch # "" /\ fin.includeTime
        /\ Len(fout.args) = 7

====
